---- MODULE Spec2Model ----
(***************************************************************************)
(* A model of dbus-deviation: the D-Bus type-signature parser              *)
(* (dbusapi/typeparser.py, dbusapi/types.py), the interface AST            *)
(* (dbusapi/ast.py) and the interface comparator                           *)
(* (dbusdeviation/interfacecomparator.py).                                 *)
(*                                                                         *)
(* Strings of the program are TLA+ strings; a type signature is a sequence *)
(* of one-character strings so that it can be read character by character. *)
(* Python's None is a value of the same shape as the values it stands in   *)
(* for (NoneChar, NoneType, NoneSignature, NoneStr).  The typographic      *)
(* quotes of the program's messages are written as ASCII quotes.           *)
(***************************************************************************)
EXTENDS Integers, Sequences, FiniteSets, TLC

VARIABLES
    signature,    \* TypeParser.signature
    _index,       \* TypeParser._index
    _log,         \* TypeParser._log.issues
    parsed,       \* the value returned by the last TypeParser.parse()
    rendered,     \* str() of the last returned TypeSignature
    old,          \* InterfaceComparator._old_interfaces
    new,          \* InterfaceComparator._new_interfaces
    _enabled_warnings,   \* InterfaceComparator._enabled_warnings
    _disabled_warnings,  \* InterfaceComparator._disabled_warnings
    _output,      \* InterfaceComparator._output; InterfaceParser._output
    compared,     \* whether compare() has been called on the comparator
    returned,     \* the value returned by the last compare() / get_output()
    calls,        \* the number of compare() calls made on the comparator,
                  \* of parse() calls made on the TypeParser
    comparators,  \* two InterfaceComparators whose compare() calls are
                  \* interleaved: their trees, _output and position
    debug,        \* Python's __debug__: whether assert statements are run
    xml,          \* the XML element that the node is built from; the root
                  \* of the document of the InterfaceParser
    log,          \* the issues of the AstLog handed to from_xml; those on
                  \* the AstLogs of the nodes the InterfaceParser constructs
    built,        \* the node returned by from_xml or by InterfaceParser.parse
                  \* (NoNode before, and for None)
    done,         \* whether from_xml, or InterfaceParser.parse, has been
                  \* called
    raised,       \* whether a call was left by an exception
    last_child,   \* the child handed to the last add_child()
    result,       \* the value returned by the last add_child()
    attaches      \* the number of add_child() calls made on the node

vars == <<signature, _index, _log, parsed, rendered,
          old, new, _enabled_warnings, _disabled_warnings, _output, compared,
          returned, calls, comparators,
          debug, xml, log, built, done, raised, last_child, result, attaches>>

typeVars == <<signature, _index, _log, parsed, rendered>>
cmpVars == <<old, new, _enabled_warnings, _disabled_warnings, _output,
             compared, returned, calls, comparators>>
astVars == <<debug, xml, log, built, done, raised, last_child, result,
             attaches>>

(***************************************************************************)
(* Bounds of the model.                                                    *)
(***************************************************************************)
\* Longest type signature handed to TypeParser.
MaxLen == 4
\* Longest argument list of a method or signal.
MaxArgs == 2
\* Most members (methods, properties, signals, annotations) of an interface
\* in the trees that vary in structure.
MaxMembers == 2
\* Most compare() calls made on one comparator, and most parse() calls on
\* one TypeParser.
MaxCalls == 2
\* Most child elements of the XML element that a node is built from.
MaxSiblings == 3
\* Most add_child() calls on one node.
MaxAttach == 2

\* The longest name that the names of the model are drawn from in full.
MaxName == 3
\* Most child elements of the root of a document handed to InterfaceParser.
MaxElements == 2

\* The characters signatures are drawn from: two basic types, the container
\* punctuation, one reserved code and one unknown code.
Chars == {"s", "u", "a", "(", ")", "{", "}", "r", "z"}

RECURSIVE SeqsUpTo(_, _)
\* All sequences over S of length at most n.
SeqsUpTo(S, n) ==
    IF n = 0 THEN {<<>>}
    ELSE LET shorter == SeqsUpTo(S, n - 1)
         IN  shorter \cup {Append(q, x) : q \in shorter, x \in S}

\* The longer signatures of the specification's scenarios: "a{us}", "a{ss}",
\* "a{sss}" and "a(us)".
ScenarioSignatures ==
    {<<"a", "{", "u", "s", "}">>, <<"a", "{", "s", "s", "}">>,
     <<"a", "{", "s", "s", "s", "}">>, <<"a", "(", "u", "s", ")">>}

\* Each of the type codes that Chars has no character for, alone: the
\* basic types, the reserved codes, and two codes that are neither.
SingleCodeSignatures ==
    {<<c>> : c \in {"y", "b", "n", "q", "i", "x", "t", "d", "o", "g", "v",
                    "h", "e", "m", "*", "?", "@", "&", "^", "z", "A"}}

\* Every signature over Chars of length at most MaxLen, the scenarios, and
\* the single codes.
Signatures ==
    SeqsUpTo(Chars, MaxLen) \cup ScenarioSignatures
        \cup SingleCodeSignatures

(***************************************************************************)
(* dbusapi/types.py: the type classes.                                     *)
(***************************************************************************)
NoneChar == "None"
NoneType == [type |-> "None", members |-> <<>>]
NoneSignature == [none |-> TRUE, members |-> <<>>]
NoneStr == [none |-> TRUE, chars |-> <<>>]

\* The basic_types table of _parse_one_type: the one-letter codes that map
\* to a scalar class.
BasicTypeCodes ==
    {"y", "b", "n", "q", "i", "u", "x", "t", "d", "s", "o", "g", "v", "h"}

\* Each scalar class sets self.type to the code it is looked up by.
BasicType(character) == [type |-> character, members |-> <<>>]

\* Array.__init__, Struct.__init__, DictEntry.__init__: an empty container
\* with the class's type code.
Array == [type |-> "a", members |-> <<>>]
Struct == [type |-> "r", members |-> <<>>]
DictEntry == [type |-> "e", members |-> <<>>]

\* container.members.append(one_type)
AppendMember(container, one_type) ==
    [container EXCEPT !.members = Append(@, one_type)]

RECURSIVE Concat(_)
\* "".join(strings) for a sequence of character sequences.
Concat(strings) ==
    IF strings = <<>> THEN <<>> ELSE Head(strings) \o Concat(Tail(strings))

RECURSIVE TypeStrOfTypeCode(_)
\* A rendering in which Struct does not override Type.__str__ and so renders
\* as its type code: one that C1 must tell from TypeStr.
TypeStrOfTypeCode(t) ==
    IF t.type = "a"
        THEN <<t.type>> \o TypeStrOfTypeCode(t.members[1])
    ELSE IF t.type = "e"
        THEN <<"{">> \o TypeStrOfTypeCode(t.members[1])
                     \o TypeStrOfTypeCode(t.members[2]) \o <<"}">>
    ELSE <<t.type>>

RECURSIVE TypeStr(_)
\* Type.__str__ / Array.__str__ / Struct.__str__ / DictEntry.__str__
TypeStr(t) ==
    IF t.type = "a"
        THEN <<t.type>> \o TypeStr(t.members[1])
    ELSE IF t.type = "r"
        THEN <<"(">> \o Concat([i \in 1..Len(t.members) |->
                                    TypeStr(t.members[i])]) \o <<")">>
    ELSE IF t.type = "e"
        THEN <<"{">> \o TypeStr(t.members[1]) \o TypeStr(t.members[2])
                     \o <<"}">>
    ELSE <<t.type>>

\* TypeSignature.__str__
SignatureStr(sig) ==
    Concat([i \in 1..Len(sig.members) |-> TypeStr(sig.members[i])])

(***************************************************************************)
(* dbusapi/log.py and dbusapi/typeparser.py.                               *)
(***************************************************************************)
\* An entry in the domain of the AstLog: one that C28 must tell from
\* TypesEntry.
TypesEntryOfAst(code, message) == <<"None", "ast", code, message>>

\* Log._create_entry with TypeParsingLog's domain.
TypesEntry(code, message) == <<"None", "types", code, message>>

\* Log.log_issue
LogIssue(issues, code, message) == Append(issues, TypesEntry(code, message))

\* TypeParser._get_next_character: the character read (NoneChar at the end
\* of the signature) and the index afterwards.
GetNextCharacter(sig, index) ==
    IF index < Len(sig)
        THEN [character |-> sig[index + 1], index |-> index + 1]
        ELSE [character |-> NoneChar, index |-> index]

\* A list of reserved codes that lacks the last one: one that C15 must tell
\* from ReservedCodes.
ReservedCodesOfSeven == {"r", "e", "m", "*", "?", "@", "&"}

\* The reserved characters of _parse_one_type.
ReservedCodes == {"r", "e", "m", "*", "?", "@", "&", "^"}

\* What _parse_one_type and its loops hand back: the type (NoneType for
\* None), the parser's index and its log.
Parsed(t, index, issues) == [type |-> t, index |-> index, issues |-> issues]

RECURSIVE ParseOneType(_, _, _, _)
RECURSIVE ParseStructLoop(_, _, _, _)
RECURSIVE ParseDictLoop(_, _, _, _)

\* The "while True" loop of the "(" branch of _parse_one_type.
ParseStructLoop(sig, index, issues, out_struct) ==
    LET next == GetNextCharacter(sig, index)
        character == next.character
    IN  IF character = NoneChar
           \/ (character = ")" /\ Len(out_struct.members) = 0)
            THEN Parsed(NoneType, next.index,
                        LogIssue(issues, "invalid-type",
                                 "Incomplete structure declaration."))
        ELSE IF character = ")"
            THEN Parsed(out_struct, next.index, issues)
        ELSE LET one == ParseOneType(sig, next.index, issues, character)
             IN  IF one.type = NoneType
                     THEN one
                     ELSE ParseStructLoop(sig, one.index, one.issues,
                                          AppendMember(out_struct, one.type))

RECURSIVE ParseDictLoopOfLateArity(_, _, _, _)
\* A dictionary loop that takes a third member and only counts at the closing
\* brace: one that C16 must tell from ParseDictLoop.
ParseDictLoopOfLateArity(sig, index, issues, out_dict) ==
    LET next == GetNextCharacter(sig, index)
        character == next.character
    IN  IF character = NoneChar
           \/ (character = "}" /\ Len(out_dict.members) # 2)
            THEN Parsed(NoneType, next.index,
                        LogIssue(issues, "invalid-type",
                                 "Incomplete dictionary declaration."))
        ELSE IF character = "}"
            THEN Parsed(out_dict, next.index, issues)
        ELSE LET one == ParseOneType(sig, next.index, issues, character)
             IN  IF one.type = NoneType
                     THEN one
                     ELSE ParseDictLoopOfLateArity(
                              sig, one.index, one.issues,
                              AppendMember(out_dict, one.type))

\* The "while True" loop of the "{" branch of _parse_one_type.
ParseDictLoop(sig, index, issues, out_dict) ==
    LET next == GetNextCharacter(sig, index)
        character == next.character
    IN  IF character = NoneChar
           \/ (character = "}" /\ Len(out_dict.members) # 2)
            THEN Parsed(NoneType, next.index,
                        LogIssue(issues, "invalid-type",
                                 "Incomplete dictionary declaration."))
        ELSE IF character = "}"
            THEN Parsed(out_dict, next.index, issues)
        ELSE LET one == ParseOneType(sig, next.index, issues, character)
             IN  IF one.type = NoneType
                     THEN one
                 ELSE IF Len(out_dict.members) >= 2
                     THEN Parsed(NoneType, one.index,
                                 LogIssue(one.issues, "invalid-type",
                                          "Invalid dictionary declaration."))
                 ELSE ParseDictLoop(sig, one.index, one.issues,
                                    AppendMember(out_dict, one.type))

\* TypeParser._parse_one_type
ParseOneType(sig, index, issues, character) ==
    IF character \in BasicTypeCodes
        THEN Parsed(BasicType(character), index, issues)
    ELSE IF character = "a"
        THEN LET next == GetNextCharacter(sig, index)
             IN  IF next.character = NoneChar
                     THEN Parsed(NoneType, next.index,
                                 LogIssue(issues, "invalid-type",
                                          "Incomplete array declaration."))
                     ELSE LET one == ParseOneType(sig, next.index, issues,
                                                  next.character)
                          IN  IF one.type = NoneType
                                  THEN one
                                  ELSE Parsed(AppendMember(Array, one.type),
                                              one.index, one.issues)
    ELSE IF character = "("
        THEN ParseStructLoop(sig, index, issues, Struct)
    ELSE IF character = "{"
        THEN ParseDictLoop(sig, index, issues, DictEntry)
    ELSE IF character \in ReservedCodes
        THEN Parsed(NoneType, index,
                    LogIssue(issues, "reserved-type",
                             "Reserved type '" \o character
                             \o "' must not be used in signatures on D-Bus."))
    ELSE Parsed(NoneType, index,
                LogIssue(issues, "unknown-type",
                         "Unknown type '" \o character \o "'."))

RECURSIVE ParseLoopOfContinue(_, _, _, _)
\* A loop of parse that goes on to the next character after a refused type:
\* one that C18 must tell from ParseLoop.
ParseLoopOfContinue(sig, index, issues, members) ==
    LET next == GetNextCharacter(sig, index)
    IN  IF next.character = NoneChar
            THEN [members |-> members, index |-> next.index,
                  issues |-> issues]
            ELSE LET one == ParseOneType(sig, next.index, issues,
                                         next.character)
                 IN  IF one.type = NoneType
                         THEN ParseLoopOfContinue(sig, one.index, one.issues,
                                                  members)
                         ELSE ParseLoopOfContinue(sig, one.index, one.issues,
                                                  Append(members, one.type))

RECURSIVE ParseLoop(_, _, _, _)
\* The "while True" loop of TypeParser.parse: the members collected, the
\* index and the log when the loop is left.
ParseLoop(sig, index, issues, members) ==
    LET next == GetNextCharacter(sig, index)
    IN  IF next.character = NoneChar
            THEN [members |-> members, index |-> next.index,
                  issues |-> issues]
            ELSE LET one == ParseOneType(sig, next.index, issues,
                                         next.character)
                 IN  IF one.type = NoneType
                         THEN [members |-> members, index |-> one.index,
                               issues |-> one.issues]
                         ELSE ParseLoop(sig, one.index, one.issues,
                                        Append(members, one.type))

\* A parse() that neither clears the log nor resets the index: one that C30
\* must tell from ParseCall.
ParseCallOfNoReset(sig, index, issues) ==
    LET cleared == IF Len(sig) = 0
                       THEN LogIssue(issues, "invalid-type",
                                     "Empty type string.")
                       ELSE issues
        loop == ParseLoop(sig, index, cleared, <<>>)
    IN  [out |-> IF loop.issues # <<>>
                     THEN NoneSignature
                     ELSE [none |-> FALSE, members |-> loop.members],
         index |-> loop.index,
         issues |-> loop.issues]

\* TypeParser.parse on a parser whose index and log are the ones given: the
\* returned value (NoneSignature for None), and the parser's index and log
\* after the call.  self._log.clear() and self._index = 0 come first.
ParseCall(sig, index, issues) ==
    LET cleared == IF Len(sig) = 0
                       THEN LogIssue(<<>>, "invalid-type",
                                     "Empty type string.")
                       ELSE <<>>
        loop == ParseLoop(sig, 0, cleared, <<>>)
    IN  [out |-> IF loop.issues # <<>>
                     THEN NoneSignature
                     ELSE [none |-> FALSE, members |-> loop.members],
         index |-> loop.index,
         issues |-> loop.issues]

\* TypeParser(sig).parse(): the call on a parser as TypeParser.__init__
\* leaves it.
ParseRun(sig) == ParseCall(sig, 0, <<>>)

\* The TypeSignature (or None) that TypeParser(type_).parse() returns.
ParseType(type_) == ParseRun(type_).out

(***************************************************************************)
(* dbusapi/ast.py: the nodes of the interface AST.  A name-keyed           *)
(* OrderedDict is the sequence of its values in insertion order; a child's *)
(* back-reference to its parent is the part of the parent that is read     *)
(* through it (its kind, its name, its annotations).                       *)
(***************************************************************************)
NoneName == "None"
NoParent == [kind |-> "None", name |-> NoneName, annotations |-> <<>>]

\* "name in container" for a name-keyed container.
Has(container, name) == \E i \in 1..Len(container) : container[i].name = name

\* container[name]
Get(container, name) ==
    container[CHOOSE i \in 1..Len(container) : container[i].name = name]

\* BaseNode._child_is_duplicate
ChildIsDuplicate(container, child) == Has(container, child.name)

\* BaseNode._add_child on a name-keyed container: a duplicate is discarded,
\* any other child is stored under its name.
AddChild(container, child) ==
    IF ChildIsDuplicate(container, child)
        THEN container
        ELSE Append(container, child)

RECURSIVE AddChildren(_, _)
\* "for child in children: self._add_child(child)"
AddChildren(container, children) ==
    IF children = <<>>
        THEN container
        ELSE AddChildren(AddChild(container, Head(children)), Tail(children))

\* Annotation.__init__
Annotation(name, value) ==
    [kind |-> "annotation", name |-> name, value |-> value]

\* Argument.__init__: the type string is parsed, a missing direction is "in".
Argument(name, direction, type_, annotations) ==
    [kind |-> "argument",
     name |-> name,
     type |-> ParseType(type_),
     direction |-> IF direction = NoneName THEN "in" ELSE direction,
     annotations |-> AddChildren(<<>>, annotations),
     index |-> -1,
     parent |-> NoParent]

\* Callable._add_child for an argument (never a duplicate): the argument is
\* appended, child.parent is the callable, and Argument.index is its position
\* in the callable's argument list.
AddArgument(arguments, arg) ==
    Append(arguments, [arg EXCEPT !.index = Len(arguments)])

RECURSIVE AddArguments(_, _)
AddArguments(arguments, args) ==
    IF args = <<>>
        THEN arguments
        ELSE AddArguments(AddArgument(arguments, Head(args)), Tail(args))

\* Callable.__init__ (Method.__init__ with kind "method", Signal.__init__
\* with kind "signal")
Callable(kind, name, args, annotations) ==
    [kind |-> kind,
     name |-> name,
     arguments |-> AddArguments(<<>>, args),
     annotations |-> AddChildren(<<>>, annotations),
     parent |-> NoParent]

Method(name, args, annotations) == Callable("method", name, args, annotations)
Signal(name, args, annotations) == Callable("signal", name, args, annotations)

\* Property.__init__
Property(name, type_, access, annotations) ==
    [kind |-> "property",
     name |-> name,
     type |-> ParseType(type_),
     access |-> access,
     annotations |-> AddChildren(<<>>, annotations),
     parent |-> NoParent]

\* Interface._add_child / BaseNode._add_child: child.interface and
\* child.parent are the interface.
SetParent(child, parent) ==
    [child EXCEPT !.parent = [kind |-> parent.kind, name |-> parent.name,
                              annotations |-> parent.annotations]]

\* The callable with each of its arguments' parent set to the callable as it
\* stands in the finished tree.
WithArgumentParents(callable) ==
    [callable EXCEPT !.arguments =
        [i \in 1..Len(callable.arguments) |->
            [callable.arguments[i] EXCEPT !.parent =
                [kind |-> callable.kind,
                 name |-> callable.parent.name \o "." \o callable.name,
                 annotations |-> callable.annotations]]]]

\* Interface.__init__
Interface(name, methods, properties, signals, annotations) ==
    LET self == [kind |-> "interface", name |-> name,
                 annotations |-> AddChildren(<<>>, annotations)]
        Attach(children) ==
            LET kept == AddChildren(<<>>, children)
            IN  [i \in 1..Len(kept) |-> SetParent(kept[i], self)]
        callables(children) ==
            LET kept == Attach(children)
            IN  [i \in 1..Len(kept) |-> WithArgumentParents(kept[i])]
    IN  [kind |-> "interface",
         name |-> name,
         methods |-> callables(methods),
         signals |-> callables(signals),
         properties |-> Attach(properties),
         annotations |-> self.annotations,
         parent |-> NoParent]

\* _dotted_name
DottedName(elem) ==
    IF elem.parent # NoParent
        THEN elem.parent.name \o "." \o elem.name
        ELSE elem.name

\* Argument.pretty_name; the parent's name held by an argument is the
\* callable's pretty_name.
ArgumentPrettyName(arg) ==
    LET res == IF arg.index = -1 /\ arg.name = NoneName THEN "unnamed"
               ELSE IF arg.index = -1 THEN "'" \o arg.name \o "'"
               ELSE IF arg.name = NoneName THEN ToString(arg.index)
               ELSE ToString(arg.index) \o " ('" \o arg.name \o "')"
    IN  IF arg.parent # NoParent
            THEN res \o " of " \o arg.parent.kind \o " '"
                     \o arg.parent.name \o "'"
            ELSE res

\* BaseNode.format_name / the pretty_name of each node class
PrettyName(node) ==
    IF node.kind = "argument" THEN ArgumentPrettyName(node)
    ELSE IF node.kind \in {"method", "signal", "property"}
        THEN DottedName(node)
    ELSE IF node.kind = "annotation" /\ "parent" \in DOMAIN node
        THEN IF node.parent # NoParent
                 THEN node.name \o " of '" \o node.parent.name \o "'"
                 ELSE node.name
    ELSE node.name

RECURSIVE JoinChars(_)
\* A sequence of characters as one string.
JoinChars(chars) ==
    IF chars = <<>> THEN "" ELSE Head(chars) \o JoinChars(Tail(chars))

\* "%s" % type for a node's type: str(TypeSignature), or "None".
FormatType(type) ==
    IF type.none THEN "None" ELSE JoinChars(SignatureStr(type))

(***************************************************************************)
(* dbusapi/ast.py: building nodes from XML.  An XML element is a record of *)
(* its tag, its attrib (a function on the names of the attributes it       *)
(* carries), its sourceline, its text and the sequence of its child        *)
(* elements.  A built node holds its children list and its _type_containers*)
(* (one sequence per class of child), and "parent" as above, whose name is *)
(* the parent's pretty_name.  The log is threaded through the calls as a   *)
(* record of its issues and of whether an AssertionError is propagating.   *)
(***************************************************************************)
\* etree.Comment, the tag of an XML comment.
COMMENT == "<!-- -->"
TP_DTD == "http://telepathy.freedesktop.org/wiki/DbusSpec#extensions-v0"
FDO_DTD == "http://www.freedesktop.org/dbus/1.0/doc.dtd"

\* BaseNode.DOCSTRING_TAGS
DOCSTRING_TAGS == {"{" \o TP_DTD \o "}docstring", "{" \o FDO_DTD \o "}doc"}

\* A tag in a namespace that is not one of the documentation tags.
OTHER_TAG == "{urn:example}other"

\* ignore_node: node.tag[0] == '{', on the tags of the model.
IgnoreNode(elem) == elem.tag \in DOCSTRING_TAGS \cup {OTHER_TAG}

\* None where a node is expected.
NoNode == [kind |-> "None", name |-> NoneName]

\* The codes that AstLog.__init__ registers.
AstIssueCodes ==
    {"unknown-node", "empty-root", "missing-attribute", "duplicate-node",
     "duplicate-interface", "duplicate-method", "duplicate-signal",
     "duplicate-property", "node-name", "interface-name", "method-name",
     "signal-name", "property-type", "argument-type"}

\* Log._create_entry on an AstLog
AstEntry(code, message) == <<"None", "ast", code, message>>

\* Log.log_issue on an AstLog: "assert code in self.issue_codes" raises
\* AssertionError where assert statements are compiled in (__debug__), and
\* the entry is appended otherwise.
AstLogIssue(st, code, message) ==
    IF debug /\ code \notin AstIssueCodes
        THEN [st EXCEPT !.raised = TRUE]
        ELSE [st EXCEPT !.issues = Append(@, AstEntry(code, message))]

\* The classes in the _type_containers of a node of each class.
TypeContainers(kind) ==
    CASE kind = "node" -> {"annotation", "interface", "node"}
      [] kind = "interface" -> {"annotation", "method", "signal", "property"}
      [] kind \in {"method", "signal"} -> {"annotation", "argument"}
      [] OTHER -> {"annotation"}

\* The class that is built from an element of each tag.
ClassOfTag(tag) == IF tag = "arg" THEN "argument" ELSE tag

\* The _children_types of a node of each class: from tag to class.
ChildrenTypes(kind) ==
    [tag \in {IF k = "argument" THEN "arg" ELSE k : k \in TypeContainers(kind)}
        |-> ClassOfTag(tag)]

\* cls.required_attributes
RequiredAttributes(kind) ==
    CASE kind = "node" -> <<>>
      [] kind = "property" -> <<"name", "access", "type">>
      [] kind = "argument" -> <<"type">>
      [] OTHER -> <<"name">>

\* The characters that the names of the model are written with: two
\* letters and a digit of [A-Za-z0-9_], the dot and the slash.
NameChars == {"A", "I", "1", ".", "/"}
Letters == {"A", "I"}
Alphanumerics == {"A", "I", "1"}

\* The names of the model, character by character: every name of up to
\* MaxName characters, and longer names with a valid name at their start.
Names ==
    SeqsUpTo(NameChars, MaxName)
        \cup {<<"I", ".", "I", "/">>, <<"I", ".", "I", ".", "1">>,
              <<"I", ".", "I", ".", "I">>, <<"A", "1", "I", "A">>}

\* The string of each name of the model.
NameStrings == [chars \in Names |-> JoinChars(chars)]

\* The characters of a name of the model, name[0], name[1], ...
CharsOf(name) == CHOOSE chars \in Names : NameStrings[chars] = name

RECURSIVE MatchAlphanumerics(_, _)
\* re.match of [A-Za-z0-9_]* from the i-th character on: the position after
\* the longest run of such characters.
MatchAlphanumerics(chars, i) ==
    IF i <= Len(chars) /\ chars[i] \in Alphanumerics
        THEN MatchAlphanumerics(chars, i + 1)
        ELSE i

\* re.match of [A-Za-z_][A-Za-z0-9_]* from the i-th character on: the
\* position after the match, or 0 if there is none.
MatchElement(chars, i) ==
    IF i <= Len(chars) /\ chars[i] \in Letters
        THEN MatchAlphanumerics(chars, i + 1)
        ELSE 0

\* Interface.is_valid_interface_name: match() looks for an element, a dot
\* and an element from the start of the name, and not for the end of the
\* name after them.
IsValidInterfaceName(name) ==
    LET chars == CharsOf(name)
        dot == MatchElement(chars, 1)
    IN  /\ Len(chars) <= 255
        /\ dot # 0
        /\ dot <= Len(chars)
        /\ chars[dot] = "."
        /\ MatchElement(chars, dot + 1) # 0

\* Callable.is_valid_name: match() looks for an element from the start of
\* the name.
IsValidName(name) ==
    LET chars == CharsOf(name)
    IN  Len(chars) <= 255 /\ MatchElement(chars, 1) # 0

\* Node.is_valid_relative_object_path: match() looks for [A-Za-z0-9_]+ from
\* the start of the name.
IsValidRelativeObjectPath(name) ==
    MatchAlphanumerics(CharsOf(name), 1) > 1

\* "not name": the name is None or empty.
NotName(name) == name \in {NoneName, ""}

\* The value "parent" of a child attached to the node.
ParentRef(self) ==
    [kind |-> self.kind, name |-> PrettyName(self),
     annotations |-> self.containers["annotation"]]

\* The log after the validation of a name in __init__: "if name and not
\* <Class>.is_valid_...(name): self.log.log_issue(...)".
NameIssue(st, name, code, valid, what) ==
    IF ~NotName(name) /\ ~valid
        THEN AstLogIssue(st, code, "Invalid " \o what \o " name '" \o name
                                   \o "'.")
        ELSE st

\* The log after Property.__init__ and Argument.__init__ have parsed the
\* type: "if self.type is None: self.log.log_issue(...)".
TypeIssue(st, attrs, run, code, what) ==
    IF run.out.none
        THEN AstLogIssue(st, code,
                 "Error when parsing type '" \o JoinChars(attrs.type_)
                 \o "' for " \o what \o " '" \o attrs.name \o "': "
                 \o run.issues[1][4])
        ELSE st

\* BaseNode.__init__ for a node of the class.
BaseNode(kind, name) ==
    [kind |-> kind,
     name |-> name,
     line_number |-> -1,
     comment |-> NoneName,
     parent |-> NoParent,
     children |-> <<>>,
     containers |-> [k \in TypeContainers(kind) |-> <<>>]]

\* Property.__init__ and Argument.__init__, with what
\* TypeParser(type_).parse() has given.
NewTyped(kind, attrs, st, run) ==
    IF kind = "property"
        THEN [res |-> BaseNode(kind, attrs.name)
                      @@ [type |-> run.out, access |-> attrs.access],
              st |-> TypeIssue(st, attrs, run, "property-type", "property")]
        ELSE [res |-> BaseNode(kind, attrs.name)
                      @@ [type |-> run.out,
                          direction |-> IF attrs.direction = NoneName
                                            THEN "in"
                                            ELSE attrs.direction,
                          index |-> -1],
              st |-> TypeIssue(st, attrs, run, "argument-type", "argument")]

\* cls.__init__ on the attributes read by from_xml, with the log it is
\* given: the new node, and the log after the validation of the name or of
\* the type.
NewNode(kind, attrs, st) ==
    CASE kind = "interface" ->
             [res |-> BaseNode(kind, attrs.name),
              st |-> NameIssue(st, attrs.name, "interface-name",
                               IsValidInterfaceName(attrs.name),
                               "interface")]
      [] kind \in {"method", "signal"} ->
             [res |-> BaseNode(kind, attrs.name),
              st |-> NameIssue(st, attrs.name, kind \o "-name",
                               IsValidName(attrs.name), kind)]
      [] kind \in {"property", "argument"} ->
             NewTyped(kind, attrs, st, ParseRun(attrs.type_))
      [] kind = "annotation" ->
             [res |-> BaseNode(kind, attrs.name) @@ [value |-> attrs.value],
              st |-> st]
      [] OTHER -> [res |-> BaseNode(kind, attrs.name), st |-> st]

\* parent._add_child(child) for a child of a class in the parent's
\* _type_containers (Node._add_child, Interface._add_child,
\* BaseNode._add_child, with Callable._child_is_duplicate): the parent, the
\* child, the log and the returned value after the call.
AddChildTo(self, child, st) ==
    LET checked ==
            IF self.kind = "node" /\ child.kind = "node"
                THEN IF NotName(child.name)
                         THEN AstLogIssue(st, "missing-attribute",
                                  "Missing required attribute 'name' in "
                                  \o "non-root node.")
                     ELSE IF ~IsValidRelativeObjectPath(child.name)
                         THEN AstLogIssue(st, "node-name",
                                  "Non-root node name is not a relative "
                                  \o "object path '" \o child.name \o "'.")
                     ELSE st
                ELSE st
        container == self.containers[child.kind]
        parented == [child EXCEPT !.parent = ParentRef(self)]
        is_duplicate ==
            IF self.kind \in {"method", "signal"} /\ child.kind = "argument"
                THEN FALSE
                ELSE ChildIsDuplicate(container, child)
        logged == AstLogIssue(checked, "duplicate-" \o child.kind,
                              "Duplicate " \o child.kind \o " definition '"
                              \o PrettyName(parented) \o "'.")
        stored == IF child.kind = "argument"
                      THEN [parented EXCEPT !.index = Len(container)]
                      ELSE parented
    IN  IF is_duplicate
            THEN [self |-> self, child |-> parented, st |-> logged,
                  returned |-> IF logged.raised THEN NoneName ELSE "False"]
            ELSE [self |-> [self EXCEPT
                               !.children = Append(@, stored),
                               !.containers[child.kind] = Append(@, stored)],
                  child |-> stored, st |-> checked, returned |-> "True"]

RECURSIVE LogMissing(_, _, _)
\* The loop of from_xml over cls.required_attributes: one issue for each
\* attribute that the element does not carry.
LogMissing(st, required, elem) ==
    IF required = <<>>
        THEN st
    ELSE IF Head(required) \in DOMAIN elem.attrib
        THEN LogMissing(st, Tail(required), elem)
    ELSE LogMissing(AstLogIssue(st, "missing-attribute",
                        "Missing required attribute '" \o Head(required)
                        \o "' in " \o elem.tag \o "."),
                    Tail(required), elem)

\* The attrs that from_xml hands to cls.__init__: node.attrib[name] for a
\* required attribute and node.attrib.get(name) for an optional one.
Attrs(elem) ==
    LET get(a) == IF a \in DOMAIN elem.attrib THEN elem.attrib[a]
                  ELSE NoneName
    IN  [name |-> get("name"), type_ |-> get("type"),
         access |-> get("access"), direction |-> get("direction"),
         value |-> get("value")]

\* The last child of the parent replaced by the child as it stands after its
\* own children have been built (the parent holds a reference to it).
Settled(self, child) ==
    [self EXCEPT
        !.children[Len(self.children)] = child,
        !.containers[child.kind][Len(self.containers[child.kind])] = child]

RECURSIVE FromXml(_, _, _, _, _)
RECURSIVE ParseXmlChildren(_, _, _, _)

\* The end of from_xml, "res.parse_xml_children(node); return res", with
\* what parent.add_child(res) has left and the child as its own children
\* have filled it.
FromXmlFilled(added, filled) ==
    [res |-> IF filled.st.raised THEN NoNode ELSE filled.self,
     parent |-> IF added.returned = "True"
                    THEN Settled(added.self, filled.self)
                    ELSE added.self,
     st |-> filled.st]

\* from_xml after "parent.add_child(res)".
FromXmlAdded(elem, added) ==
    IF added.st.raised
        THEN [res |-> NoNode, parent |-> added.self, st |-> added.st]
        ELSE FromXmlFilled(added,
                           ParseXmlChildren(added.child, elem.children,
                                            added.st, NoneName))

\* from_xml after "res = cls(**attrs)": the line number and the comment are
\* set, and the node is added to the parent if there is one.
FromXmlMade(elem, comment, parent, made) ==
    FromXmlAdded(elem,
        IF parent # NoNode
            THEN AddChildTo(parent,
                            [made.res EXCEPT
                                !.line_number = elem.sourceline,
                                !.comment = IF comment # NoneName
                                                THEN comment ELSE @],
                            made.st)
            ELSE [self |-> parent,
                  child |-> [made.res EXCEPT
                                !.line_number = elem.sourceline,
                                !.comment = IF comment # NoneName
                                                THEN comment ELSE @],
                  st |-> made.st,
                  returned |-> NoneName])

\* from_xml after the loop over the required attributes, with the log as
\* the loop has left it: None if an attribute was missing.
FromXmlRead(kind, elem, comment, st, parent, read) ==
    IF read # st
        THEN [res |-> NoNode, parent |-> parent, st |-> read]
        ELSE FromXmlMade(elem, comment, parent,
                         NewNode(kind, Attrs(elem), read))

\* cls.from_xml(node, comment, log, parent) for the class "kind": the built
\* node (NoNode for None), the parent and the log after the call.
FromXml(kind, elem, comment, st, parent) ==
    FromXmlRead(kind, elem, comment, st, parent,
                LogMissing(st, RequiredAttributes(kind), elem))

\* self.parse_xml_children(node) from the given child element on, with the
\* pending xml_comment (its text, or None): the node and the log after the
\* loop, or when an AssertionError leaves it.
ParseXmlChildren(self, elems, st, xml_comment) ==
    IF elems = <<>> \/ st.raised
        THEN [self |-> self, st |-> st]
    ELSE LET elem == Head(elems)
         IN  IF elem.tag = COMMENT
                 THEN ParseXmlChildren(self, Tail(elems), st, elem.text)
             ELSE IF elem.tag \in DOCSTRING_TAGS
                 THEN ParseXmlChildren([self EXCEPT !.comment = elem.text],
                                       Tail(elems), st, xml_comment)
             ELSE IF IgnoreNode(elem)
                 THEN ParseXmlChildren(self, Tail(elems), st, NoneName)
             ELSE IF elem.tag \notin DOMAIN ChildrenTypes(self.kind)
                 THEN ParseXmlChildren(
                          self, Tail(elems),
                          AstLogIssue(st, "unknown-node",
                              IF self.kind = "node"
                                 /\ NotName(PrettyName(self))
                                  THEN "Unknown node '" \o elem.tag
                                       \o "' in root."
                                  ELSE "Unknown node '" \o elem.tag \o "' in "
                                       \o self.kind \o " '"
                                       \o PrettyName(self) \o "'."),
                          NoneName)
             ELSE LET built_child ==
                          FromXml(ChildrenTypes(self.kind)[elem.tag], elem,
                                  xml_comment, st, self)
                  IN  ParseXmlChildren(built_child.parent, Tail(elems),
                                       built_child.st, NoneName)

(***************************************************************************)
(* dbusdeviation/interfacecomparator.py                                    *)
(***************************************************************************)
WARNING_CATEGORIES ==
    <<"info", "backwards-compatibility", "forwards-compatibility">>

OUTPUT_INFO == "info"
OUTPUT_FORWARDS_INCOMPATIBLE == "forwards-compatibility"
OUTPUT_BACKWARDS_INCOMPATIBLE == "backwards-compatibility"

ACCESS_READ == "read"
ACCESS_WRITE == "write"
ACCESS_READWRITE == "readwrite"

DEPRECATED == "org.freedesktop.DBus.Deprecated"
C_SYMBOL == "org.freedesktop.DBus.GLib.CSymbol"
NO_REPLY == "org.freedesktop.DBus.Method.NoReply"
EMITS_CHANGED_SIGNAL == "org.freedesktop.DBus.Property.EmitsChangedSignal"

\* "x in list" for a list of strings.
InList(x, list) == \E i \in 1..Len(list) : list[i] = x

\* InterfaceComparator._issue_output: the entry appended to self._output
\* (self._new_filename is None).
IssueOutput(level, code, message) == <<NoneName, level, code, message>>

\* A filter in which a disabled level also silences a code that was
\* enabled by name: one that C13 must tell from WarningEnabled.
WarningEnabledOfLevelFirst(enabled, disabled, level, code) ==
    /\ ~InList(level, disabled)
    /\ ~InList(code, disabled)
    /\ InList(level, enabled) \/ InList(code, enabled)

\* InterfaceComparator._warning_enabled
WarningEnabled(enabled, disabled, level, code) ==
    \/ /\ InList(level, enabled)
       /\ ~InList(level, disabled)
       /\ ~InList(code, disabled)
    \/ /\ InList(code, enabled)
       /\ ~InList(code, disabled)

\* InterfaceComparator.get_output
GetOutputOf(output, enabled, disabled) ==
    LET Enabled(entry) == WarningEnabled(enabled, disabled, entry[2], entry[3])
    IN  SelectSeq(output, Enabled)

\* _get_string_annotation
GetStringAnnotation(node, annotation_name, default) ==
    IF Has(node.annotations, annotation_name)
        THEN Get(node.annotations, annotation_name).value
        ELSE default

\* A reading in which any value of a present annotation counts as set: one
\* that C10 must tell from GetBoolAnnotation.
GetBoolAnnotationOfPresence(node, annotation_name, default) ==
    IF Has(node.annotations, annotation_name) THEN TRUE ELSE default

\* _get_bool_annotation
GetBoolAnnotation(node, annotation_name, default) ==
    IF Has(node.annotations, annotation_name)
        THEN Get(node.annotations, annotation_name).value = "true"
        ELSE default

\* A resolution that falls back to the parent for every node, property or
\* not: one that C9 must tell from GetEcsAnnotation.
GetEcsAnnotationOfAnyParent(node) ==
    IF Has(node.annotations, EMITS_CHANGED_SIGNAL)
        THEN Get(node.annotations, EMITS_CHANGED_SIGNAL).value
    ELSE IF node.kind # "interface"
            /\ Has(node.parent.annotations, EMITS_CHANGED_SIGNAL)
        THEN Get(node.parent.annotations, EMITS_CHANGED_SIGNAL).value
    ELSE "true"

RECURSIVE GetEcsAnnotation(_)
\* _get_ecs_annotation: node.interface of a property is its parent.
GetEcsAnnotation(node) ==
    IF Has(node.annotations, EMITS_CHANGED_SIGNAL)
        THEN Get(node.annotations, EMITS_CHANGED_SIGNAL).value
    ELSE IF node.kind = "property"
        THEN GetEcsAnnotation(node.parent)
    ELSE "true"

\* The Deprecated part of _compare_annotations.
CompareDeprecated(old_node, new_node) ==
    LET old_deprecated == GetBoolAnnotation(old_node, DEPRECATED, FALSE)
        new_deprecated == GetBoolAnnotation(new_node, DEPRECATED, FALSE)
    IN  IF old_deprecated /\ ~new_deprecated
            THEN <<IssueOutput(OUTPUT_INFO, "undeprecated",
                               "Node '" \o PrettyName(old_node)
                               \o "' has been un-deprecated.")>>
        ELSE IF ~old_deprecated /\ new_deprecated
            THEN <<IssueOutput(OUTPUT_INFO, "deprecated",
                               "Node '" \o PrettyName(old_node)
                               \o "' has been deprecated.")>>
        ELSE <<>>

\* The CSymbol part of _compare_annotations.
CompareCSymbol(old_node, new_node) ==
    LET old_c_symbol == GetStringAnnotation(old_node, C_SYMBOL, "")
        new_c_symbol == GetStringAnnotation(new_node, C_SYMBOL, "")
    IN  IF old_c_symbol # new_c_symbol
            THEN <<IssueOutput(OUTPUT_INFO, "c-symbol-changed",
                               "Node '" \o PrettyName(old_node)
                               \o "' has changed its C symbol from '"
                               \o old_c_symbol \o "' to '" \o new_c_symbol
                               \o "'.")>>
            ELSE <<>>

\* A NoReply comparison that looks at the old flag alone before reporting
\* a reply as added: one that C2 must tell from CompareNoReply.
CompareNoReplyOfOldOnly(old_node, new_node) ==
    LET old_no_reply == GetBoolAnnotation(old_node, NO_REPLY, FALSE)
        new_no_reply == GetBoolAnnotation(new_node, NO_REPLY, FALSE)
    IN  IF old_no_reply
            THEN <<IssueOutput(OUTPUT_BACKWARDS_INCOMPATIBLE, "reply-added",
                               "Node '" \o PrettyName(old_node)
                               \o "' has been marked as returning a reply.")>>
        ELSE IF ~old_no_reply /\ new_no_reply
            THEN <<IssueOutput(OUTPUT_BACKWARDS_INCOMPATIBLE, "reply-removed",
                               "Node '" \o PrettyName(old_node)
                               \o "' has been marked as not returning a "
                               \o "reply.")>>
        ELSE <<>>

\* The NoReply part of _compare_annotations.
CompareNoReply(old_node, new_node) ==
    LET old_no_reply == GetBoolAnnotation(old_node, NO_REPLY, FALSE)
        new_no_reply == GetBoolAnnotation(new_node, NO_REPLY, FALSE)
    IN  IF old_no_reply /\ ~new_no_reply
            THEN <<IssueOutput(OUTPUT_BACKWARDS_INCOMPATIBLE, "reply-added",
                               "Node '" \o PrettyName(old_node)
                               \o "' has been marked as returning a reply.")>>
        ELSE IF ~old_no_reply /\ new_no_reply
            THEN <<IssueOutput(OUTPUT_BACKWARDS_INCOMPATIBLE, "reply-removed",
                               "Node '" \o PrettyName(old_node)
                               \o "' has been marked as not returning a "
                               \o "reply.")>>
        ELSE <<>>

\* A table in which a constant that stops being one is classified
\* forwards-compatibility: one that C8 must tell from CompareEcs.
CompareEcsConstSlip(old_node, new_node) ==
    LET old_ecs == GetEcsAnnotation(old_node)
        new_ecs == GetEcsAnnotation(new_node)
        output_code == "ecs-changed-" \o old_ecs \o "-" \o new_ecs
        node == "Node '" \o PrettyName(old_node) \o "' "
        changed == "org.freedesktop.DBus.Properties.PropertiesChanged."
    IN  IF old_ecs \in {"true", "invalidates"}
           /\ new_ecs \in {"false", "const"}
            THEN <<IssueOutput(OUTPUT_FORWARDS_INCOMPATIBLE, output_code,
                               node \o "stopped emitting " \o changed)>>
        ELSE IF old_ecs \in {"false", "const"}
                /\ new_ecs \in {"true", "invalidates"}
            THEN <<IssueOutput(OUTPUT_BACKWARDS_INCOMPATIBLE, output_code,
                               node \o "started emitting " \o changed)>>
        ELSE IF old_ecs = "true" /\ new_ecs = "invalidates"
            THEN <<IssueOutput(OUTPUT_BACKWARDS_INCOMPATIBLE, output_code,
                               node \o "stopped emitting its new value in "
                               \o changed)>>
        ELSE IF old_ecs = "invalidates" /\ new_ecs = "true"
            THEN <<IssueOutput(OUTPUT_BACKWARDS_INCOMPATIBLE, output_code,
                               node \o "started emitting its new value in "
                               \o changed)>>
        ELSE IF old_ecs = "const" /\ new_ecs = "false"
            THEN <<IssueOutput(OUTPUT_FORWARDS_INCOMPATIBLE, output_code,
                               node \o "stopped being a constant.")>>
        ELSE IF old_ecs = "false" /\ new_ecs = "const"
            THEN <<IssueOutput(OUTPUT_FORWARDS_INCOMPATIBLE, output_code,
                               node \o "became a constant.")>>
        ELSE <<>>

\* The EmitsChangedSignal part of _compare_annotations.
CompareEcs(old_node, new_node) ==
    LET old_ecs == GetEcsAnnotation(old_node)
        new_ecs == GetEcsAnnotation(new_node)
        output_code == "ecs-changed-" \o old_ecs \o "-" \o new_ecs
        node == "Node '" \o PrettyName(old_node) \o "' "
        changed == "org.freedesktop.DBus.Properties.PropertiesChanged."
    IN  IF old_ecs \in {"true", "invalidates"}
           /\ new_ecs \in {"false", "const"}
            THEN <<IssueOutput(OUTPUT_FORWARDS_INCOMPATIBLE, output_code,
                               node \o "stopped emitting " \o changed)>>
        ELSE IF old_ecs \in {"false", "const"}
                /\ new_ecs \in {"true", "invalidates"}
            THEN <<IssueOutput(OUTPUT_BACKWARDS_INCOMPATIBLE, output_code,
                               node \o "started emitting " \o changed)>>
        ELSE IF old_ecs = "true" /\ new_ecs = "invalidates"
            THEN <<IssueOutput(OUTPUT_BACKWARDS_INCOMPATIBLE, output_code,
                               node \o "stopped emitting its new value in "
                               \o changed)>>
        ELSE IF old_ecs = "invalidates" /\ new_ecs = "true"
            THEN <<IssueOutput(OUTPUT_BACKWARDS_INCOMPATIBLE, output_code,
                               node \o "started emitting its new value in "
                               \o changed)>>
        ELSE IF old_ecs = "const" /\ new_ecs = "false"
            THEN <<IssueOutput(OUTPUT_BACKWARDS_INCOMPATIBLE, output_code,
                               node \o "stopped being a constant.")>>
        ELSE IF old_ecs = "false" /\ new_ecs = "const"
            THEN <<IssueOutput(OUTPUT_FORWARDS_INCOMPATIBLE, output_code,
                               node \o "became a constant.")>>
        ELSE <<>>

\* An annotation comparison that also reports each annotation of the old
\* node that the new node lacks as removed, and each annotation of the new
\* node that the old node lacks as added: one that C11 must tell from
\* CompareAnnotations.
CompareAnnotationsOfPresence(old_node, new_node) ==
    CompareDeprecated(old_node, new_node)
        \o CompareCSymbol(old_node, new_node)
        \o CompareNoReply(old_node, new_node)
        \o CompareEcs(old_node, new_node)
        \o Concat([i \in 1..Len(old_node.annotations) |->
                      IF ~Has(new_node.annotations,
                              old_node.annotations[i].name)
                          THEN <<IssueOutput(OUTPUT_BACKWARDS_INCOMPATIBLE,
                                             "annotation-removed",
                                             "Annotation removed.")>>
                          ELSE <<>>])
        \o Concat([i \in 1..Len(new_node.annotations) |->
                      IF ~Has(old_node.annotations,
                              new_node.annotations[i].name)
                          THEN <<IssueOutput(OUTPUT_FORWARDS_INCOMPATIBLE,
                                             "annotation-added",
                                             "Annotation added.")>>
                          ELSE <<>>])

\* InterfaceComparator._compare_annotations: the entries it appends.
CompareAnnotations(old_node, new_node) ==
    CompareDeprecated(old_node, new_node)
        \o CompareCSymbol(old_node, new_node)
        \o CompareNoReply(old_node, new_node)
        \o CompareEcs(old_node, new_node)

\* An argument comparison whose direction code names the new direction
\* first: one that C6 must tell from CompareArguments.
CompareArgumentsOfNewOld(old_arg, new_arg) ==
    (IF old_arg.name # new_arg.name
         THEN <<IssueOutput(OUTPUT_INFO, "argument-name-changed",
                            "Argument " \o PrettyName(old_arg)
                            \o " has changed name from '" \o old_arg.name
                            \o "' to '" \o new_arg.name \o "'.")>>
         ELSE <<>>)
    \o (IF old_arg.type # new_arg.type
         THEN <<IssueOutput(OUTPUT_BACKWARDS_INCOMPATIBLE,
                            "argument-type-changed",
                            "Argument " \o PrettyName(old_arg)
                            \o " has changed type from '"
                            \o FormatType(old_arg.type) \o "' to '"
                            \o FormatType(new_arg.type) \o "'.")>>
         ELSE <<>>)
    \o (IF old_arg.direction # new_arg.direction
         THEN <<IssueOutput(OUTPUT_BACKWARDS_INCOMPATIBLE,
                            "argument-direction-changed-" \o new_arg.direction
                            \o "-" \o old_arg.direction,
                            "Argument " \o PrettyName(old_arg)
                            \o " has changed direction from '"
                            \o old_arg.direction \o "' to '"
                            \o new_arg.direction \o "'.")>>
         ELSE <<>>)
    \o CompareAnnotations(old_arg, new_arg)

\* InterfaceComparator._compare_arguments
CompareArguments(old_arg, new_arg) ==
    (IF old_arg.name # new_arg.name
         THEN <<IssueOutput(OUTPUT_INFO, "argument-name-changed",
                            "Argument " \o PrettyName(old_arg)
                            \o " has changed name from '" \o old_arg.name
                            \o "' to '" \o new_arg.name \o "'.")>>
         ELSE <<>>)
    \o (IF old_arg.type # new_arg.type
         THEN <<IssueOutput(OUTPUT_BACKWARDS_INCOMPATIBLE,
                            "argument-type-changed",
                            "Argument " \o PrettyName(old_arg)
                            \o " has changed type from '"
                            \o FormatType(old_arg.type) \o "' to '"
                            \o FormatType(new_arg.type) \o "'.")>>
         ELSE <<>>)
    \o (IF old_arg.direction # new_arg.direction
         THEN <<IssueOutput(OUTPUT_BACKWARDS_INCOMPATIBLE,
                            "argument-direction-changed-" \o old_arg.direction
                            \o "-" \o new_arg.direction,
                            "Argument " \o PrettyName(old_arg)
                            \o " has changed direction from '"
                            \o old_arg.direction \o "' to '"
                            \o new_arg.direction \o "'.")>>
         ELSE <<>>)
    \o CompareAnnotations(old_arg, new_arg)

\* max(a, b)
Max(a, b) == IF a >= b THEN a ELSE b

\* A loop body that classifies an added argument like an added method: one
\* that C5 must tell from CompareArgumentAt.
CompareArgumentAtOfForwards(old_callable, new_callable, i) ==
    LET n_old_args == Len(old_callable.arguments)
        n_new_args == Len(new_callable.arguments)
    IN  IF i >= n_old_args
            THEN <<IssueOutput(OUTPUT_FORWARDS_INCOMPATIBLE, "argument-added",
                               "Argument "
                               \o PrettyName(new_callable.arguments[i + 1])
                               \o " has been added.")>>
        ELSE IF i >= n_new_args
            THEN <<IssueOutput(OUTPUT_BACKWARDS_INCOMPATIBLE,
                               "argument-removed",
                               "Argument "
                               \o PrettyName(old_callable.arguments[i + 1])
                               \o " has been removed.")>>
        ELSE CompareArguments(old_callable.arguments[i + 1],
                              new_callable.arguments[i + 1])

\* The body of "for i in range(max(n_old_args, n_new_args))" in
\* _compare_methods and _compare_signals, for position i (from 0).
CompareArgumentAt(old_callable, new_callable, i) ==
    LET n_old_args == Len(old_callable.arguments)
        n_new_args == Len(new_callable.arguments)
    IN  IF i >= n_old_args
            THEN <<IssueOutput(OUTPUT_BACKWARDS_INCOMPATIBLE, "argument-added",
                               "Argument "
                               \o PrettyName(new_callable.arguments[i + 1])
                               \o " has been added.")>>
        ELSE IF i >= n_new_args
            THEN <<IssueOutput(OUTPUT_BACKWARDS_INCOMPATIBLE,
                               "argument-removed",
                               "Argument "
                               \o PrettyName(old_callable.arguments[i + 1])
                               \o " has been removed.")>>
        ELSE CompareArguments(old_callable.arguments[i + 1],
                              new_callable.arguments[i + 1])

\* A callable comparison that compares the annotations before the
\* arguments: one that C12 must tell from CompareCallables.
CompareCallablesOfAnnotationsFirst(old_callable, new_callable) ==
    LET n == IF Len(old_callable.arguments) >= Len(new_callable.arguments)
                 THEN Len(old_callable.arguments)
                 ELSE Len(new_callable.arguments)
    IN  CompareAnnotations(old_callable, new_callable)
        \o Concat([k \in 1..n |->
                      CompareArgumentAt(old_callable, new_callable, k - 1)])

\* The argument loop and the annotation comparison that _compare_methods
\* and _compare_signals share.
CompareCallables(old_callable, new_callable) ==
    LET n == Max(Len(old_callable.arguments), Len(new_callable.arguments))
    IN  Concat([k \in 1..n |->
                    CompareArgumentAt(old_callable, new_callable, k - 1)])
        \o CompareAnnotations(old_callable, new_callable)

\* InterfaceComparator._compare_methods
CompareMethods(old_method, new_method) ==
    CompareCallables(old_method, new_method)

\* InterfaceComparator._compare_signals
CompareSignals(old_signal, new_signal) ==
    CompareCallables(old_signal, new_signal)

\* An access comparison that takes only read to readwrite as a loosening:
\* one that C7 must tell from CompareAccess.
CompareAccessReadOnly(old_property, new_property) ==
    LET error_code == "property-access-changed-" \o old_property.access
                      \o "-" \o new_property.access
        text == "Property '" \o PrettyName(old_property)
                \o "' has changed access from '" \o old_property.access
                \o "' to '" \o new_property.access \o "'"
    IN  IF old_property.access = ACCESS_READ
           /\ new_property.access = ACCESS_READWRITE
            THEN <<IssueOutput(OUTPUT_FORWARDS_INCOMPATIBLE, error_code,
                               text \o ", becoming less restrictive.")>>
        ELSE IF old_property.access # new_property.access
            THEN <<IssueOutput(OUTPUT_BACKWARDS_INCOMPATIBLE, error_code,
                               text \o ".")>>
        ELSE <<>>

\* The access part of _compare_properties.
CompareAccess(old_property, new_property) ==
    LET error_code == "property-access-changed-" \o old_property.access
                      \o "-" \o new_property.access
        text == "Property '" \o PrettyName(old_property)
                \o "' has changed access from '" \o old_property.access
                \o "' to '" \o new_property.access \o "'"
    IN  IF (old_property.access = ACCESS_READ
            \/ old_property.access = ACCESS_WRITE)
           /\ new_property.access = ACCESS_READWRITE
            THEN <<IssueOutput(OUTPUT_FORWARDS_INCOMPATIBLE, error_code,
                               text \o ", becoming less restrictive.")>>
        ELSE IF old_property.access # new_property.access
            THEN <<IssueOutput(OUTPUT_BACKWARDS_INCOMPATIBLE, error_code,
                               text \o ".")>>
        ELSE <<>>

\* InterfaceComparator._compare_properties
CompareProperties(old_property, new_property) ==
    (IF old_property.type # new_property.type
         THEN <<IssueOutput(OUTPUT_BACKWARDS_INCOMPATIBLE,
                            "property-type-changed",
                            "Property '" \o PrettyName(old_property)
                            \o "' has changed type from '"
                            \o FormatType(old_property.type) \o "' to '"
                            \o FormatType(new_property.type) \o "'.")>>
         ELSE <<>>)
    \o CompareAccess(old_property, new_property)
    \o CompareAnnotations(old_property, new_property)

\* The entry an old-keyed loop of compare and _compare_interfaces issues for
\* an element whose name is not in the new container.
Removed(kind, title, node) ==
    IssueOutput(OUTPUT_BACKWARDS_INCOMPATIBLE, kind \o "-removed",
                title \o " '" \o PrettyName(node) \o "' has been removed.")

\* An "added" entry with the severity of a "removed" one: one that C3 must
\* tell from Added.
AddedOfRemovedSeverity(kind, title, node) ==
    IssueOutput(OUTPUT_BACKWARDS_INCOMPATIBLE, kind \o "-added",
                title \o " '" \o PrettyName(node) \o "' has been added.")

\* The entry a new-keyed loop of compare and _compare_interfaces issues for
\* an element whose name is not in the old container.
Added(kind, title, node) ==
    IssueOutput(OUTPUT_FORWARDS_INCOMPATIBLE, kind \o "-added",
                title \o " '" \o PrettyName(node) \o "' has been added.")

\* A new-keyed loop that reports every new element, matched or not: one
\* that C4 must tell from AddedLoop.
AddedLoopOfAll(kind, title, old_container, new_container) ==
    Concat([i \in 1..Len(new_container) |->
                <<IssueOutput(OUTPUT_FORWARDS_INCOMPATIBLE, kind \o "-added",
                              title \o " '" \o PrettyName(new_container[i])
                              \o "' has been added.")>>])

\* The new-keyed loop: one "added" entry for each new element whose name is
\* not in the old container.
AddedLoop(kind, title, old_container, new_container) ==
    Concat([i \in 1..Len(new_container) |->
                IF ~Has(old_container, new_container[i].name)
                    THEN <<Added(kind, title, new_container[i])>>
                    ELSE <<>>])

\* The method loops of _compare_interfaces.
CompareMethodLoops(old_interface, new_interface) ==
    Concat([i \in 1..Len(old_interface.methods) |->
                LET method == old_interface.methods[i]
                IN  IF ~Has(new_interface.methods, method.name)
                        THEN <<Removed("method", "Method", method)>>
                        ELSE CompareMethods(method,
                                            Get(new_interface.methods,
                                                method.name))])
    \o AddedLoop("method", "Method", old_interface.methods,
                 new_interface.methods)

\* The property loops of _compare_interfaces.
ComparePropertyLoops(old_interface, new_interface) ==
    Concat([i \in 1..Len(old_interface.properties) |->
                LET prop == old_interface.properties[i]
                IN  IF ~Has(new_interface.properties, prop.name)
                        THEN <<Removed("property", "Property", prop)>>
                        ELSE CompareProperties(prop,
                                               Get(new_interface.properties,
                                                   prop.name))])
    \o AddedLoop("property", "Property", old_interface.properties,
                 new_interface.properties)

\* The signal loops of _compare_interfaces.
CompareSignalLoops(old_interface, new_interface) ==
    Concat([i \in 1..Len(old_interface.signals) |->
                LET signal == old_interface.signals[i]
                IN  IF ~Has(new_interface.signals, signal.name)
                        THEN <<Removed("signal", "Signal", signal)>>
                        ELSE CompareSignals(signal,
                                            Get(new_interface.signals,
                                                signal.name))])
    \o AddedLoop("signal", "Signal", old_interface.signals,
                 new_interface.signals)

\* InterfaceComparator._compare_interfaces
CompareInterfaces(old_interface, new_interface) ==
    CompareMethodLoops(old_interface, new_interface)
        \o ComparePropertyLoops(old_interface, new_interface)
        \o CompareSignalLoops(old_interface, new_interface)
        \o CompareAnnotations(old_interface, new_interface)

\* The entries InterfaceComparator.compare appends to the emptied
\* self._output.
CompareOutput(old_interfaces, new_interfaces) ==
    Concat([i \in 1..Len(old_interfaces) |->
                LET interface == old_interfaces[i]
                IN  IF ~Has(new_interfaces, interface.name)
                        THEN <<Removed("interface", "Interface", interface)>>
                        ELSE CompareInterfaces(interface,
                                               Get(new_interfaces,
                                                   interface.name))])
    \o AddedLoop("interface", "Interface", old_interfaces, new_interfaces)

(***************************************************************************)
(* The type parser as a state machine: a TypeParser is constructed on a    *)
(* signature, parse() is called on it, and the result is rendered.         *)
(***************************************************************************)
\* No node is being built: the state of the AST builder in the behaviours of
\* the type parser and of the comparator.
NoBuilder ==
    /\ debug = TRUE
    /\ xml = NoNode
    /\ log = <<>>
    /\ built = NoNode
    /\ done = FALSE
    /\ raised = FALSE
    /\ last_child = NoNode
    /\ result = NoneName
    /\ attaches = 0

\* The value of "parsed" before parse() has been called.
NotCalled == [none |-> TRUE, members |-> <<[type |-> "not called", members |-> <<>>]>>]

TypesInit ==
    /\ comparators = <<>>
    /\ signature \in Signatures
    /\ _index = 0
    /\ _log = <<>>
    /\ parsed = NotCalled
    /\ rendered = NoneStr
    /\ old = <<>>
    /\ new = <<>>
    /\ _enabled_warnings = <<>>
    /\ _disabled_warnings = <<>>
    /\ _output = <<>>
    /\ compared = FALSE
    /\ returned = <<>>
    /\ calls = 0
    /\ NoBuilder

\* parser.parse()
Parse ==
    LET run == ParseCall(signature, _index, _log)
    IN  /\ calls < MaxCalls
        /\ calls' = calls + 1
        /\ parsed' = run.out
        /\ _index' = run.index
        /\ _log' = run.issues
        /\ UNCHANGED <<signature, rendered>>
        /\ UNCHANGED <<comparators, old, new, _enabled_warnings,
                       _disabled_warnings, _output, compared, returned>>
        /\ UNCHANGED astVars

\* str(parser.parse()) on a successful parse
Render ==
    /\ parsed # NotCalled
    /\ ~parsed.none
    /\ rendered = NoneStr
    /\ rendered' = [none |-> FALSE, chars |-> SignatureStr(parsed)]
    /\ UNCHANGED <<signature, _index, _log, parsed>>
    /\ UNCHANGED cmpVars
    /\ UNCHANGED astVars

TypesNext == Parse \/ Render

TypesSpec == TypesInit /\ [][TypesNext]_vars

(***************************************************************************)
(* The comparator as a state machine: an InterfaceComparator is            *)
(* constructed on two interface mappings with the default warning lists,   *)
(* and compare() and get_output() are called on it.  The mappings are      *)
(* built with the constructors of dbusapi/ast.py from the values below.    *)
(***************************************************************************)
\* A compare() that appends to the entries of the earlier calls: one that
\* C14 must tell from Compare.
CompareOfAccumulation ==
    /\ calls < MaxCalls
    /\ _output' = _output \o CompareOutput(old, new)
    /\ compared' = TRUE
    /\ returned' = GetOutputOf(_output', _enabled_warnings,
                               _disabled_warnings)
    /\ calls' = calls + 1
    /\ UNCHANGED <<comparators, old, new, _enabled_warnings,
                   _disabled_warnings>>
    /\ UNCHANGED typeVars
    /\ UNCHANGED astVars

\* InterfaceComparator.compare: self._output is emptied, filled by the
\* comparison and returned through get_output().
Compare ==
    /\ calls < MaxCalls
    /\ _output' = <<>> \o CompareOutput(old, new)
    /\ compared' = TRUE
    /\ returned' = GetOutputOf(_output', _enabled_warnings,
                               _disabled_warnings)
    /\ calls' = calls + 1
    /\ UNCHANGED <<comparators, old, new, _enabled_warnings,
                   _disabled_warnings>>
    /\ UNCHANGED typeVars
    /\ UNCHANGED astVars

\* InterfaceComparator.get_output
GetOutput ==
    /\ returned' = GetOutputOf(_output, _enabled_warnings, _disabled_warnings)
    /\ UNCHANGED <<comparators, old, new, _enabled_warnings,
                   _disabled_warnings, _output, compared, calls>>
    /\ UNCHANGED typeVars
    /\ UNCHANGED astVars

CmpNext == Compare \/ GetOutput

\* InterfaceComparator.__init__ on two mappings of one of the given families
\* of mappings, enabled_warnings and disabled_warnings left at None; no
\* TypeParser of its own.
CmpInit(families) ==
    /\ comparators = <<>>
    /\ \E family \in families : old \in family /\ new \in family
    /\ _enabled_warnings = WARNING_CATEGORIES
    /\ _disabled_warnings = <<>>
    /\ _output = <<>>
    /\ compared = FALSE
    /\ returned = <<>>
    /\ calls = 0
    /\ signature = <<>>
    /\ _index = 0
    /\ _log = <<>>
    /\ parsed = NotCalled
    /\ rendered = NoneStr
    /\ NoBuilder

\* Two well-formed type strings.
TypeStrings == {<<"s">>, <<"a", "s">>}
EcsValues == {"true", "invalidates", "const", "false"}

\* An annotation list holding the EmitsChangedSignal annotation with the
\* given value, or none for NoneName.
EcsAnnotations(value) ==
    IF value = NoneName
        THEN <<>>
        ELSE <<Annotation(EMITS_CHANGED_SIGNAL, value)>>

\* --- Mappings that differ in the arguments of one method or one signal.
ArgChoices ==
    {Argument("x", "in", <<"s">>, <<>>),
     Argument(NoneName, NoneName, <<"s">>, <<>>),
     Argument("x", "out", <<"s">>, <<>>),
     Argument("x", "in", <<"a", "s">>, <<>>),
     Argument(NoneName, "out", <<"a", "s">>, <<>>)}

ArgLists == SeqsUpTo(ArgChoices, MaxArgs)

MethodTree(args) ==
    <<Interface("a.I", <<Method("M", args, <<>>)>>, <<>>, <<>>, <<>>)>>
SignalTree(args) ==
    <<Interface("a.I", <<>>, <<>>, <<Signal("S", args, <<>>)>>, <<>>)>>

ArgFamilies ==
    {{MethodTree(args) : args \in ArgLists},
     {SignalTree(args) : args \in ArgLists}}

ArgsInit == CmpInit(ArgFamilies)
ArgsSpec == ArgsInit /\ [][CmpNext]_vars

\* --- Mappings that differ in one property, or in the EmitsChangedSignal
\* annotations of an interface, its method and its two properties.
PropertyTrees ==
    {<<Interface("a.I", <<>>,
                 <<Property("P", t, access, EcsAnnotations(own))>>,
                 <<>>, EcsAnnotations(of_interface))>> :
        t \in TypeStrings,
        access \in {ACCESS_READ, ACCESS_WRITE, ACCESS_READWRITE},
        own \in EcsValues \cup {NoneName},
        of_interface \in EcsValues \cup {NoneName}}

TwoPropertyTrees ==
    {<<Interface("a.I", <<Method("M", <<>>, EcsAnnotations(m))>>,
                 <<Property("P", <<"s">>, ACCESS_READ, EcsAnnotations(p)),
                   Property("Q", <<"s">>, ACCESS_READ, EcsAnnotations(q))>>,
                 <<>>, EcsAnnotations(of_interface))>> :
        m \in {"false", NoneName},
        p \in EcsValues \cup {NoneName},
        q \in {"const", NoneName},
        of_interface \in EcsValues \cup {NoneName}}

PropsInit == CmpInit({PropertyTrees, TwoPropertyTrees})
PropsSpec == PropsInit /\ [][CmpNext]_vars

\* --- Mappings that differ in structure: which interfaces they hold and
\* which members interface a.I holds.
ArgX == Argument("x", "in", <<"s">>, <<>>)
ArgY == Argument("y", "in", <<"s">>, <<>>)

MethodChoices ==
    {Method("M", <<>>, <<>>),
     Method("M", <<ArgX>>, <<Annotation(DEPRECATED, "true")>>),
     Method("N", <<>>, <<>>)}
PropertyChoices == {Property("P", <<"s">>, ACCESS_READ, <<>>)}
SignalChoices ==
    {Signal("S", <<>>, <<>>), Signal("S", <<ArgX>>, <<>>),
     Signal("S", <<ArgY>>, <<>>)}
AnnotationChoices ==
    {Annotation(DEPRECATED, "true"), Annotation(C_SYMBOL, "f")}

\* The member lists of an interface with at most MaxMembers members.
Bodies ==
    {b \in [methods : SeqsUpTo(MethodChoices, MaxMembers),
            properties : SeqsUpTo(PropertyChoices, MaxMembers),
            signals : SeqsUpTo(SignalChoices, MaxMembers),
            annotations : SeqsUpTo(AnnotationChoices, MaxMembers)] :
        Len(b.methods) + Len(b.properties) + Len(b.signals)
            + Len(b.annotations) <= MaxMembers}

InterfaceI(b) ==
    Interface("a.I", b.methods, b.properties, b.signals, b.annotations)
InterfaceJ == Interface("a.J", <<>>, <<>>, <<>>, <<>>)

\* Mappings of the one interface a.I, with every member list.
MemberTrees == {<<InterfaceI(b)>> : b \in Bodies}

\* Mappings of none, one or both of a.I and a.J, in either order, a.I with
\* the member lists that are one short of the longest.
MappingTrees ==
    LET shorter ==
            {b \in Bodies :
                Len(b.methods) + Len(b.properties) + Len(b.signals)
                    + Len(b.annotations) < MaxMembers}
    IN  {<<>>, <<InterfaceJ>>}
            \cup {<<InterfaceI(b)>> : b \in shorter}
            \cup {<<InterfaceI(b), InterfaceJ>> : b \in shorter}
            \cup {<<InterfaceJ, InterfaceI(b)>> : b \in shorter}

StructTrees == MemberTrees \cup MappingTrees

StructInit == CmpInit({MemberTrees, MappingTrees})
StructSpec == StructInit /\ [][CmpNext]_vars

\* --- Mappings of one shape that differ in the Deprecated and NoReply
\* annotations of one node: the interface, its method, the method's argument,
\* its signal or its property.
FlagLevels == {"interface", "method", "argument", "signal", "property"}

FlagAnnotationLists ==
    {(IF d = NoneName THEN <<>> ELSE <<Annotation(DEPRECATED, d)>>)
         \o (IF r = NoneName THEN <<>> ELSE <<Annotation(NO_REPLY, r)>>) :
        d \in {NoneName, "true", "false", "yes"},
        r \in {NoneName, "true", "false"}}

FlagTree(level, annotations) ==
    LET At(l) == IF l = level THEN annotations ELSE <<>>
    IN  <<Interface("a.I",
                    <<Method("M", <<Argument("x", "in", <<"s">>,
                                             At("argument"))>>,
                             At("method"))>>,
                    <<Property("P", <<"s">>, ACCESS_READ, At("property"))>>,
                    <<Signal("S", <<>>, At("signal"))>>,
                    At("interface"))>>

FlagTrees ==
    {FlagTree(level, annotations) :
        level \in FlagLevels, annotations \in FlagAnnotationLists}

FlagsInit == CmpInit({FlagTrees})
FlagsSpec == FlagsInit /\ [][CmpNext]_vars

\* --- A mapping compared against itself.
AllTrees ==
    UNION ArgFamilies \cup PropertyTrees \cup TwoPropertyTrees
        \cup StructTrees \cup FlagTrees

SelfInit == CmpInit({{tree} : tree \in AllTrees})
SelfSpec == SelfInit /\ [][CmpNext]_vars

\* C1: whenever parse() succeeded on a signature (a TypeSignature was
\* returned and the log is empty), str() of the returned TypeSignature is the
\* signature itself, character for character.
RoundTrip ==
    (/\ parsed # NotCalled
     /\ ~parsed.none
     /\ _log = <<>>
     /\ ~rendered.none) => rendered.chars = signature

\* A nested signature with every container kind has been parsed and rendered.
RoundTripWitness ==
    /\ signature \in {<<"a", "{", "u", "s", "}">>, <<"(", "a", "s", ")">>}
    /\ ~parsed.none
    /\ ~rendered.none

(***************************************************************************)
(* What the properties below read off a state of the comparator.           *)
(***************************************************************************)
\* The number of entries of the output equal to the given entry.
CountOf(output, entry) ==
    Cardinality({i \in 1..Len(output) : output[i] = entry})

\* The number of entries of the output with one of the given codes.
CountCodes(output, codes) ==
    Cardinality({i \in 1..Len(output) : output[i][3] \in codes})

\* The number of entries of the output with the given severity and code.
CountLevelCode(output, level, code) ==
    Cardinality({i \in 1..Len(output) :
                    output[i][2] = level /\ output[i][3] = code})

\* The position of an entry that occurs in the output.
PositionOf(output, entry) ==
    CHOOSE i \in 1..Len(output) : output[i] = entry

\* The pairs of elements of two name-keyed containers that share a name.
MatchedIn(old_container, new_container) ==
    {<<old_container[i], Get(new_container, old_container[i].name)>> :
        i \in {k \in 1..Len(old_container) :
                  Has(new_container, old_container[k].name)}}

\* The elements of a container whose name is not in the other container.
OnlyIn(container, other) ==
    {container[i] : i \in {k \in 1..Len(container) :
                              ~Has(other, container[k].name)}}

MatchedInterfaces == MatchedIn(old, new)
MatchedMethods ==
    UNION {MatchedIn(p[1].methods, p[2].methods) : p \in MatchedInterfaces}
MatchedSignals ==
    UNION {MatchedIn(p[1].signals, p[2].signals) : p \in MatchedInterfaces}
MatchedCallables == MatchedMethods \cup MatchedSignals
MatchedProperties ==
    UNION {MatchedIn(p[1].properties, p[2].properties) :
              p \in MatchedInterfaces}

Min(a, b) == IF a <= b THEN a ELSE b

\* C2: once compare() has been called on a comparator whose two mappings are
\* the same mapping, no diagnostic of any severity has been issued and the
\* returned list is empty.
Idempotence ==
    (compared /\ old = new) => (_output = <<>> /\ returned = <<>>)

\* A mapping whose interface, method and properties carry annotations has
\* been compared against itself.
IdempotenceWitness ==
    /\ compared
    /\ old = new
    /\ Len(old) = 1
    /\ Len(old[1].properties) = 2
    /\ Has(old[1].annotations, EMITS_CHANGED_SIGNAL)
    /\ Has(old[1].properties[1].annotations, EMITS_CHANGED_SIGNAL)

\* The add/remove entry compare() is to issue for position i (from 0) of a
\* matched callable pair whose argument lists differ in length.
ExpectedArgumentEntry(pair, i) ==
    IF Len(pair[1].arguments) > Len(pair[2].arguments)
        THEN <<NoneName, "backwards-compatibility", "argument-removed",
               "Argument " \o ArgumentPrettyName(pair[1].arguments[i + 1])
               \o " has been removed.">>
        ELSE <<NoneName, "backwards-compatibility", "argument-added",
               "Argument " \o ArgumentPrettyName(pair[2].arguments[i + 1])
               \o " has been added.">>

\* C5: after compare(), for the matched method or signal pair with n_old and
\* n_new arguments, every position from min(n_old, n_new) to
\* max(n_old, n_new) - 1 has exactly one entry, 'argument-removed' when the
\* old list is the longer one and 'argument-added' when the new list is, with
\* severity backwards-compatibility; these entries come in ascending order of
\* position, after the entries of the positions both lists have; there are
\* |n_old - n_new| add/remove entries in all, never of both kinds.
PositionalArguments ==
    compared =>
        \A pair \in MatchedCallables :
            LET n_old == Len(pair[1].arguments)
                n_new == Len(pair[2].arguments)
                lo == Min(n_old, n_new)
                hi == Max(n_old, n_new)
            IN  /\ \A i \in lo..(hi - 1) :
                       /\ CountOf(_output, ExpectedArgumentEntry(pair, i)) = 1
                       /\ PositionOf(_output, ExpectedArgumentEntry(pair, i))
                              = Len(_output) - (hi - 1 - i)
                /\ CountCodes(_output, {"argument-added", "argument-removed"})
                       = hi - lo
                /\ n_old >= n_new
                       => CountCodes(_output, {"argument-added"}) = 0
                /\ n_old <= n_new
                       => CountCodes(_output, {"argument-removed"}) = 0

\* A callable has lost two arguments, and a callable has gained two.
PositionalArgumentsWitness ==
    /\ compared
    /\ \E pair \in MatchedSignals :
           /\ Len(pair[1].arguments) = 2
           /\ Len(pair[2].arguments) = 0
    /\ CountCodes(_output, {"argument-removed"}) = 2

DirectionCodes ==
    {"argument-direction-changed-" \o d \o "-" \o e :
        d \in {"in", "out"}, e \in {"in", "out"}}

\* C6: after compare(), for every argument position that the old and the new
\* callable both have: there is exactly one info 'argument-name-changed'
\* entry for it if the names differ and none otherwise; exactly one
\* backwards-compatibility 'argument-type-changed' entry if the types differ
\* and none otherwise; exactly one backwards-compatibility entry coded
\* 'argument-direction-changed-<old>-<new>' if the directions differ and none
\* otherwise; and the callable pair has no other name, type or direction
\* entries.
PairwiseArguments ==
    compared =>
        \A pair \in MatchedCallables :
            LET lo == Min(Len(pair[1].arguments), Len(pair[2].arguments))
                Old(i) == pair[1].arguments[i]
                New(i) == pair[2].arguments[i]
                about(i) == "Argument " \o ArgumentPrettyName(Old(i))
                NameEntry(i) ==
                    <<NoneName, "info", "argument-name-changed",
                      about(i) \o " has changed name from '" \o Old(i).name
                      \o "' to '" \o New(i).name \o "'.">>
                TypeEntry(i) ==
                    <<NoneName, "backwards-compatibility",
                      "argument-type-changed",
                      about(i) \o " has changed type from '"
                      \o FormatType(Old(i).type) \o "' to '"
                      \o FormatType(New(i).type) \o "'.">>
                DirectionEntry(i) ==
                    <<NoneName, "backwards-compatibility",
                      "argument-direction-changed-" \o Old(i).direction
                      \o "-" \o New(i).direction,
                      about(i) \o " has changed direction from '"
                      \o Old(i).direction \o "' to '" \o New(i).direction
                      \o "'.">>
                Differing(field) ==
                    {i \in 1..lo : Old(i)[field] # New(i)[field]}
            IN  /\ \A i \in 1..lo :
                       /\ CountOf(_output, NameEntry(i))
                              = IF Old(i).name # New(i).name THEN 1 ELSE 0
                       /\ CountOf(_output, TypeEntry(i))
                              = IF Old(i).type # New(i).type THEN 1 ELSE 0
                       /\ CountOf(_output, DirectionEntry(i))
                              = IF Old(i).direction # New(i).direction
                                    THEN 1 ELSE 0
                /\ CountCodes(_output, {"argument-name-changed"})
                       = Cardinality(Differing("name"))
                /\ CountCodes(_output, {"argument-type-changed"})
                       = Cardinality(Differing("type"))
                /\ CountCodes(_output, DirectionCodes)
                       = Cardinality(Differing("direction"))

\* At one position the name, the type and the direction (in to out) have all
\* changed, at another position (out to in) only the direction.
PairwiseArgumentsWitness ==
    /\ compared
    /\ Len(_output) = 4
    /\ CountCodes(_output, {"argument-name-changed"}) = 1
    /\ CountCodes(_output, {"argument-type-changed"}) = 1
    /\ CountCodes(_output, {"argument-direction-changed-in-out"}) = 1
    /\ CountCodes(_output, {"argument-direction-changed-out-in"}) = 1

\* What compare() issues when the two mappings are given the other way round.
Reverse == CompareOutput(new, old)

ElementKinds == {"interface", "method", "property", "signal"}

\* The info-level entries of an output, in order.
InfoOf(output) ==
    LET IsInfo(entry) == entry[2] = "info"
    IN  SelectSeq(output, IsInfo)

\* C3 as stated: comparing (old, new) and (new, old), every '<kind>-removed'
\* entry of one direction, arguments included, is matched by a '<kind>-added'
\* entry of the other direction with the other of the two severities
\* backwards-compatibility and forwards-compatibility, and the info-level
\* entries of the two directions are the same.
SeveritySymmetryAsStated ==
    LET reverse == Reverse
    IN  compared =>
            /\ \A kind \in ElementKinds \cup {"argument"} :
                   /\ CountLevelCode(_output, "backwards-compatibility",
                                     kind \o "-removed")
                          = CountLevelCode(reverse, "forwards-compatibility",
                                           kind \o "-added")
                   /\ CountLevelCode(_output, "forwards-compatibility",
                                     kind \o "-added")
                          = CountLevelCode(reverse, "backwards-compatibility",
                                           kind \o "-removed")
                   /\ CountCodes(_output, {kind \o "-removed"})
                          = CountLevelCode(_output, "backwards-compatibility",
                                           kind \o "-removed")
                   /\ CountCodes(_output, {kind \o "-added"})
                          = CountLevelCode(_output, "forwards-compatibility",
                                           kind \o "-added")
            /\ InfoOf(_output) = InfoOf(reverse)

\* C3: comparing (old, new) and (new, old), every interface, method, property
\* or signal removal of one direction (backwards-compatibility) is an
\* addition of the other direction (forwards-compatibility) and conversely;
\* an argument removal of one direction is an argument addition of the other
\* and both are backwards-compatibility; the two directions have the same
\* number of info-level entries, with as many 'c-symbol-changed' and
\* 'argument-name-changed' entries in one as in the other, and as many
\* 'deprecated' entries in one as 'undeprecated' entries in the other.
SeveritySymmetry ==
    LET reverse == Reverse
    IN  compared =>
            /\ \A kind \in ElementKinds :
                   /\ CountLevelCode(_output, "backwards-compatibility",
                                     kind \o "-removed")
                          = CountLevelCode(reverse, "forwards-compatibility",
                                           kind \o "-added")
                   /\ CountLevelCode(_output, "forwards-compatibility",
                                     kind \o "-added")
                          = CountLevelCode(reverse, "backwards-compatibility",
                                           kind \o "-removed")
                   /\ CountCodes(_output, {kind \o "-removed"})
                          = CountLevelCode(_output, "backwards-compatibility",
                                           kind \o "-removed")
                   /\ CountCodes(_output, {kind \o "-added"})
                          = CountLevelCode(_output, "forwards-compatibility",
                                           kind \o "-added")
            /\ CountLevelCode(_output, "backwards-compatibility",
                              "argument-removed")
                   = CountLevelCode(reverse, "backwards-compatibility",
                                    "argument-added")
            /\ CountLevelCode(_output, "backwards-compatibility",
                              "argument-added")
                   = CountLevelCode(reverse, "backwards-compatibility",
                                    "argument-removed")
            /\ CountCodes(_output, {"argument-removed", "argument-added"})
                   = CountLevelCode(_output, "backwards-compatibility",
                                    "argument-removed")
                     + CountLevelCode(_output, "backwards-compatibility",
                                      "argument-added")
            /\ Len(InfoOf(_output)) = Len(InfoOf(reverse))
            /\ \A code \in {"c-symbol-changed", "argument-name-changed"} :
                   CountLevelCode(_output, "info", code)
                       = CountLevelCode(reverse, "info", code)
            /\ CountLevelCode(_output, "info", "deprecated")
                   = CountLevelCode(reverse, "info", "undeprecated")
            /\ CountLevelCode(_output, "info", "undeprecated")
                   = CountLevelCode(reverse, "info", "deprecated")

\* An interface has been removed, and in the interface that stayed a method
\* has lost an argument and its Deprecated annotation.
SeveritySymmetryWitness ==
    /\ compared
    /\ CountCodes(_output, {"interface-removed"}) = 1
    /\ CountCodes(_output, {"argument-removed"}) = 1
    /\ CountCodes(_output, {"undeprecated"}) = 1

\* The elements of a container whose name the other container has too.
RestrictTo(container, other) ==
    LET IsMatched(node) == Has(other, node.name)
    IN  SelectSeq(container, IsMatched)

\* A mapping without the interfaces the other mapping lacks, and each
\* remaining interface without the methods, properties and signals that its
\* counterpart lacks.
RestrictTree(tree, other) ==
    LET matched == RestrictTo(tree, other)
    IN  [i \in 1..Len(matched) |->
             LET counterpart == Get(other, matched[i].name)
             IN  [matched[i] EXCEPT
                      !.methods = RestrictTo(@, counterpart.methods),
                      !.properties = RestrictTo(@, counterpart.properties),
                      !.signals = RestrictTo(@, counterpart.signals)]]

\* The entries of an output that do not report an added or removed
\* interface, method, property or signal, in order.
WithoutElementChanges(output) ==
    LET IsOther(entry) ==
            entry[3] \notin {kind \o suffix : kind \in ElementKinds,
                                              suffix \in {"-removed",
                                                          "-added"}}
    IN  SelectSeq(output, IsOther)

\* The old elements of the given kind, of the mappings or of a matched
\* interface pair, whose name the new side lacks.
RemovedElements(kind) ==
    IF kind = "interface" THEN OnlyIn(old, new)
    ELSE UNION {OnlyIn(p[1][kind], p[2][kind]) : p \in MatchedInterfaces}

\* The new elements of the given kind whose name the old side lacks.
AddedElements(kind) ==
    IF kind = "interface" THEN OnlyIn(new, old)
    ELSE UNION {OnlyIn(p[2][kind], p[1][kind]) : p \in MatchedInterfaces}

\* C4: after compare(), every interface of the old mapping, and every method,
\* property or signal of a matched interface pair, whose name the new side
\* lacks has exactly one '<kind>-removed' entry, of severity
\* backwards-compatibility; every one whose name the old side lacks has
\* exactly one '<kind>-added' entry, of severity forwards-compatibility;
\* there are no other such entries; and the rest of the output is what
\* comparing the two mappings without their unmatched elements yields.
ElementClassification ==
    compared =>
        /\ \A title \in {"Interface", "Method", "Property", "Signal"} :
               LET kind == CASE title = "Interface" -> "interface"
                             [] title = "Method" -> "method"
                             [] title = "Property" -> "property"
                             [] title = "Signal" -> "signal"
                   field == IF kind = "interface" THEN kind
                            ELSE IF kind = "property" THEN "properties"
                            ELSE kind \o "s"
               IN  /\ \A node \in RemovedElements(field) :
                          CountOf(_output,
                                  <<NoneName, "backwards-compatibility",
                                    kind \o "-removed",
                                    title \o " '" \o PrettyName(node)
                                    \o "' has been removed.">>) = 1
                   /\ \A node \in AddedElements(field) :
                          CountOf(_output,
                                  <<NoneName, "forwards-compatibility",
                                    kind \o "-added",
                                    title \o " '" \o PrettyName(node)
                                    \o "' has been added.">>) = 1
                   /\ CountCodes(_output, {kind \o "-removed"})
                          = Cardinality(RemovedElements(field))
                   /\ CountCodes(_output, {kind \o "-added"})
                          = Cardinality(AddedElements(field))
        /\ WithoutElementChanges(_output)
               = CompareOutput(RestrictTree(old, new),
                               RestrictTree(new, old))

\* An interface has been removed, and in the interface that stayed a
\* deprecated method with an argument has been removed and another method
\* added.
ElementClassificationWitness ==
    /\ compared
    /\ Len(old) = 2
    /\ Len(new) = 1
    /\ \E pair \in MatchedInterfaces :
           \E method \in OnlyIn(pair[1].methods, pair[2].methods) :
               /\ Len(method.arguments) = 1
               /\ Has(method.annotations, DEPRECATED)
    /\ CountCodes(_output, {"interface-removed"}) = 1
    /\ CountCodes(_output, {"method-removed"}) = 1
    /\ CountCodes(_output, {"method-added"}) = 1

AccessCodes ==
    {"property-access-changed-" \o a \o "-" \o b :
        a \in {"read", "write", "readwrite"},
        b \in {"read", "write", "readwrite"}}

\* C7: after compare(), a matched property pair has exactly one
\* backwards-compatibility 'property-type-changed' entry if its types are
\* structurally unequal and none otherwise; and it has no access entry if
\* its access is unchanged, and otherwise exactly one, coded
\* 'property-access-changed-<old>-<new>', of severity forwards-compatibility
\* for read to readwrite and write to readwrite and backwards-compatibility
\* for the four other transitions.
PropertyComparison ==
    compared =>
        /\ \A pair \in MatchedProperties :
               LET about == "Property '" \o PrettyName(pair[1]) \o "' has "
                   a == pair[1].access
                   b == pair[2].access
                   loosened == <<a, b>> \in {<<"read", "readwrite">>,
                                             <<"write", "readwrite">>}
                   TypeEntry ==
                       <<NoneName, "backwards-compatibility",
                         "property-type-changed",
                         about \o "changed type from '"
                         \o FormatType(pair[1].type) \o "' to '"
                         \o FormatType(pair[2].type) \o "'.">>
                   AccessEntry ==
                       <<NoneName,
                         IF loosened THEN "forwards-compatibility"
                                     ELSE "backwards-compatibility",
                         "property-access-changed-" \o a \o "-" \o b,
                         about \o "changed access from '" \o a \o "' to '"
                         \o b \o "'"
                         \o (IF loosened THEN ", becoming less restrictive."
                                         ELSE ".")>>
               IN  /\ CountOf(_output, TypeEntry)
                          = IF pair[1].type # pair[2].type THEN 1 ELSE 0
                   /\ CountOf(_output, AccessEntry) = IF a # b THEN 1 ELSE 0
        /\ CountCodes(_output, {"property-type-changed"})
               = Cardinality({pair \in MatchedProperties :
                                 pair[1].type # pair[2].type})
        /\ CountCodes(_output, AccessCodes)
               = Cardinality({pair \in MatchedProperties :
                                 pair[1].access # pair[2].access})

\* A property has changed its type and gone from write to readwrite.
PropertyComparisonWitness ==
    /\ compared
    /\ CountCodes(_output, {"property-type-changed"}) = 1
    /\ CountLevelCode(_output, "forwards-compatibility",
                      "property-access-changed-write-readwrite") = 1

EcsCodes ==
    {"ecs-changed-" \o a \o "-" \o b : a \in EcsValues, b \in EcsValues}

\* The messages _compare_annotations has for an EmitsChangedSignal change of
\* the node with the given pretty name.
EcsMessages(pretty) ==
    {"Node '" \o pretty \o "' " \o tail :
        tail \in {"stopped emitting org.freedesktop.DBus.Properties.PropertiesChanged.",
                  "started emitting org.freedesktop.DBus.Properties.PropertiesChanged.",
                  "stopped emitting its new value in org.freedesktop.DBus.Properties.PropertiesChanged.",
                  "started emitting its new value in org.freedesktop.DBus.Properties.PropertiesChanged.",
                  "stopped being a constant.",
                  "became a constant."}}

\* The positions of the output's EmitsChangedSignal entries about a node.
EcsEntriesAbout(pretty) ==
    {i \in 1..Len(_output) :
        _output[i][3] \in EcsCodes /\ _output[i][4] \in EcsMessages(pretty)}

\* The severity the 4x4 table gives the change from a to b, a # b.
EcsSeverity(a, b) ==
    IF \/ a \in {"true", "invalidates"} /\ b \in {"false", "const"}
       \/ a = "false" /\ b = "const"
        THEN "forwards-compatibility"
        ELSE "backwards-compatibility"

\* The output has no EmitsChangedSignal entry about the node if a = b, and
\* otherwise exactly one, coded 'ecs-changed-<a>-<b>', of the table's
\* severity.
EcsClassified(pretty, a, b) ==
    IF a = b
        THEN EcsEntriesAbout(pretty) = {}
        ELSE /\ Cardinality(EcsEntriesAbout(pretty)) = 1
             /\ \A i \in EcsEntriesAbout(pretty) :
                    /\ _output[i][3] = "ecs-changed-" \o a \o "-" \o b
                    /\ _output[i][2] = EcsSeverity(a, b)

\* The matched property pairs that carry an EmitsChangedSignal annotation of
\* their own on both sides.
OwnEcsPairs ==
    {pair \in MatchedProperties :
        /\ Has(pair[1].annotations, EMITS_CHANGED_SIGNAL)
        /\ Has(pair[2].annotations, EMITS_CHANGED_SIGNAL)}

\* C8: after compare(), a matched property pair whose own EmitsChangedSignal
\* values are a and b, among true, invalidates, const and false, has no ECS
\* entry if a = b and otherwise exactly one, coded 'ecs-changed-<a>-<b>',
\* of severity forwards-compatibility for true or invalidates to false or
\* const and for false to const, and backwards-compatibility for the seven
\* other changes.
EcsTable ==
    compared =>
        \A pair \in OwnEcsPairs :
            EcsClassified(PrettyName(pair[1]),
                          Get(pair[1].annotations, EMITS_CHANGED_SIGNAL).value,
                          Get(pair[2].annotations, EMITS_CHANGED_SIGNAL).value)

\* A property annotated const on the old side and false on the new side,
\* under an interface annotated otherwise, has been compared.
EcsTableWitness ==
    /\ compared
    /\ \E pair \in OwnEcsPairs :
           /\ Get(pair[1].annotations, EMITS_CHANGED_SIGNAL).value = "const"
           /\ Get(pair[2].annotations, EMITS_CHANGED_SIGNAL).value = "false"
           /\ Cardinality(EcsEntriesAbout(PrettyName(pair[1]))) = 1
    /\ \E pair \in MatchedInterfaces :
           /\ Has(pair[1].annotations, EMITS_CHANGED_SIGNAL)
           /\ Get(pair[1].annotations, EMITS_CHANGED_SIGNAL).value = "true"

\* The node's own EmitsChangedSignal value, or the given value if it has
\* none.
OwnEcsOr(node, fallback) ==
    IF \E i \in 1..Len(node.annotations) :
           node.annotations[i].name = EMITS_CHANGED_SIGNAL
        THEN (CHOOSE annotation \in {node.annotations[i] :
                                        i \in 1..Len(node.annotations)} :
                  annotation.name = EMITS_CHANGED_SIGNAL).value
        ELSE fallback

\* The matched interface pairs whose two sides differ in nothing but the
\* interface's effective EmitsChangedSignal value.
OnlyInterfaceEcsChanged ==
    {pair \in MatchedInterfaces :
        /\ OwnEcsOr(pair[1], "true") # OwnEcsOr(pair[2], "true")
        /\ \A field \in {"methods", "properties", "signals"} :
               /\ Len(pair[1][field]) = Len(pair[2][field])
               /\ \A i \in 1..Len(pair[1][field]) :
                      [pair[1][field][i] EXCEPT !.parent = NoParent]
                          = [pair[2][field][i] EXCEPT !.parent = NoParent]}

MatchedArguments ==
    UNION {{<<pair[1].arguments[i], pair[2].arguments[i]>> :
               i \in 1..Min(Len(pair[1].arguments), Len(pair[2].arguments))} :
              pair \in MatchedCallables}

\* Every pair of nodes whose annotations compare() compares.
MatchedNodes ==
    MatchedInterfaces \cup MatchedCallables \cup MatchedProperties
        \cup MatchedArguments

\* The node has the annotation, with the value 'true' exactly.
IsSet(node, annotation_name) ==
    \E i \in 1..Len(node.annotations) :
        /\ node.annotations[i].name = annotation_name
        /\ node.annotations[i].value = "true"

\* The entry for a flag of the node going from unset to set, and the entry
\* for it going from set to unset.
FlagEntries(pretty, annotation_name) ==
    IF annotation_name = DEPRECATED
        THEN [set |-> <<NoneName, "info", "deprecated",
                        "Node '" \o pretty \o "' has been deprecated.">>,
              unset |-> <<NoneName, "info", "undeprecated",
                          "Node '" \o pretty \o "' has been un-deprecated.">>]
        ELSE [set |-> <<NoneName, "backwards-compatibility", "reply-removed",
                        "Node '" \o pretty
                        \o "' has been marked as not returning a reply.">>,
              unset |-> <<NoneName, "backwards-compatibility", "reply-added",
                          "Node '" \o pretty
                          \o "' has been marked as returning a reply.">>]

\* C10: after compare(), with a flag counted as set iff its annotation is
\* present with the value 'true' exactly, every matched pair of nodes has
\* exactly one info 'deprecated' entry if Deprecated went from unset to set,
\* exactly one info 'undeprecated' entry if it went from set to unset,
\* exactly one backwards-compatibility 'reply-removed' entry if NoReply went
\* from unset to set, exactly one backwards-compatibility 'reply-added' entry
\* if it went from set to unset, and there are no other such entries: an
\* unchanged flag, absent against an explicit 'false' included, has none.
FlagAnnotations ==
    compared =>
        /\ \A pair \in MatchedNodes :
               \A annotation_name \in {DEPRECATED, NO_REPLY} :
                   LET was == IsSet(pair[1], annotation_name)
                       is == IsSet(pair[2], annotation_name)
                       entries == FlagEntries(PrettyName(pair[1]),
                                              annotation_name)
                   IN  /\ CountOf(_output, entries.set)
                              = IF ~was /\ is THEN 1 ELSE 0
                       /\ CountOf(_output, entries.unset)
                              = IF was /\ ~is THEN 1 ELSE 0
        /\ CountCodes(_output, {"deprecated", "undeprecated",
                                "reply-removed", "reply-added"})
               = Cardinality(
                     {change \in MatchedNodes \X {DEPRECATED, NO_REPLY} :
                         IsSet(change[1][1], change[2])
                             # IsSet(change[1][2], change[2])})

\* A method with Deprecated 'yes' and NoReply 'true' has been compared with
\* the same method with Deprecated 'true' and NoReply 'false'.
FlagAnnotationsWitness ==
    /\ compared
    /\ \E pair \in MatchedMethods :
           /\ Has(pair[1].annotations, DEPRECATED)
           /\ Get(pair[1].annotations, DEPRECATED).value = "yes"
           /\ IsSet(pair[1], NO_REPLY)
           /\ IsSet(pair[2], DEPRECATED)
           /\ Has(pair[2].annotations, NO_REPLY)
           /\ ~IsSet(pair[2], NO_REPLY)
    /\ CountCodes(_output, {"deprecated"}) = 1
    /\ CountCodes(_output, {"reply-added"}) = 1
    /\ Len(_output) = 2

(***************************************************************************)
(* Mappings of one shape that differ in which annotations one node         *)
(* carries: Deprecated, CSymbol, NoReply and an annotation the comparator  *)
(* has no rule for.                                                        *)
(***************************************************************************)
OTHER_ANNOTATION == "com.example.Other"

PresenceAnnotationLists ==
    {(IF d THEN <<Annotation(DEPRECATED, "true")>> ELSE <<>>)
         \o (IF c THEN <<Annotation(C_SYMBOL, "f")>> ELSE <<>>)
         \o (IF r THEN <<Annotation(NO_REPLY, "true")>> ELSE <<>>)
         \o (IF o THEN <<Annotation(OTHER_ANNOTATION, "v")>> ELSE <<>>) :
        d \in BOOLEAN, c \in BOOLEAN, r \in BOOLEAN, o \in BOOLEAN}

PresenceTrees ==
    {FlagTree(level, annotations) :
        level \in FlagLevels, annotations \in PresenceAnnotationLists}

PresenceInit == CmpInit({PresenceTrees})
PresenceSpec == PresenceInit /\ [][CmpNext]_vars

\* The annotations of the node whose name the other node has no annotation
\* of.
AnnotationsOnlyIn(node, other) ==
    {i \in 1..Len(node.annotations) :
        \A k \in 1..Len(other.annotations) :
            other.annotations[k].name # node.annotations[i].name}

\* C11 as stated: after compare(), whenever a node of a matched pair has an
\* annotation that the new node lacks, the output has a
\* backwards-compatibility entry, and whenever the new node has an annotation
\* that the old node lacks, the output has a forwards-compatibility entry.
AnnotationPresenceAsStated ==
    compared =>
        \A pair \in MatchedNodes :
            /\ AnnotationsOnlyIn(pair[1], pair[2]) # {}
                   => \E i \in 1..Len(_output) :
                          _output[i][2] = "backwards-compatibility"
            /\ AnnotationsOnlyIn(pair[2], pair[1]) # {}
                   => \E i \in 1..Len(_output) :
                          _output[i][2] = "forwards-compatibility"

\* The value of the node's CSymbol annotation, or "" if it has none.
CSymbolOf(node) ==
    IF \E i \in 1..Len(node.annotations) :
           node.annotations[i].name = C_SYMBOL
        THEN (CHOOSE annotation \in {node.annotations[i] :
                                        i \in 1..Len(node.annotations)} :
                  annotation.name = C_SYMBOL).value
        ELSE ""

\* C11: after compare(), no entry reports an annotation as removed or
\* added.  A matched pair at any level (interface, method, signal, property,
\* argument) has entries for its annotations only by the rules for
\* Deprecated, CSymbol, NoReply and EmitsChangedSignal, an absent annotation
\* counting as false, "", false and the resolved default: one info
\* 'c-symbol-changed' entry iff the CSymbol values differ, the Deprecated and
\* NoReply entries iff the flag changes, and nothing for the presence or
\* absence of any other annotation.
AnnotationPresence ==
    compared =>
        /\ \A i \in 1..Len(_output) :
               _output[i][3] \in {"deprecated", "undeprecated",
                                  "c-symbol-changed", "reply-added",
                                  "reply-removed"} \cup EcsCodes
        /\ \A pair \in MatchedNodes :
               CountOf(_output,
                       <<NoneName, "info", "c-symbol-changed",
                         "Node '" \o PrettyName(pair[1])
                         \o "' has changed its C symbol from '"
                         \o CSymbolOf(pair[1]) \o "' to '"
                         \o CSymbolOf(pair[2]) \o "'.">>)
                   = IF CSymbolOf(pair[1]) # CSymbolOf(pair[2]) THEN 1 ELSE 0
        /\ CountCodes(_output, {"deprecated", "undeprecated"})
               = Cardinality({pair \in MatchedNodes :
                                 IsSet(pair[1], DEPRECATED)
                                     # IsSet(pair[2], DEPRECATED)})
        /\ CountCodes(_output, {"reply-added", "reply-removed"})
               = Cardinality({pair \in MatchedNodes :
                                 IsSet(pair[1], NO_REPLY)
                                     # IsSet(pair[2], NO_REPLY)})
        /\ CountCodes(_output, {"c-symbol-changed"})
               = Cardinality({pair \in MatchedNodes :
                                 CSymbolOf(pair[1]) # CSymbolOf(pair[2])})
        /\ CountCodes(_output, EcsCodes) = 0

\* A signal has lost its Deprecated, CSymbol and other annotation: the
\* output is one 'undeprecated' and one 'c-symbol-changed' entry.
AnnotationPresenceWitness ==
    /\ compared
    /\ \E pair \in MatchedSignals :
           /\ Cardinality(AnnotationsOnlyIn(pair[1], pair[2])) = 3
           /\ \E i \in AnnotationsOnlyIn(pair[1], pair[2]) :
                  pair[1].annotations[i].name = OTHER_ANNOTATION
           /\ pair[2].annotations = <<>>
    /\ Len(_output) = 2
    /\ CountLevelCode(_output, "info", "undeprecated") = 1
    /\ CountLevelCode(_output, "info", "c-symbol-changed") = 1

(***************************************************************************)
(* Emission order.  Each entry of the output is told by its code and       *)
(* message to be about one element or one matched pair; the order of the   *)
(* output is stated on the positions of these groups of entries.           *)
(***************************************************************************)
KindOfTitle(title) ==
    CASE title = "Interface" -> "interface"
      [] title = "Method" -> "method"
      [] title = "Property" -> "property"
      [] title = "Signal" -> "signal"

RemovedEntry(title, node) ==
    <<NoneName, "backwards-compatibility", KindOfTitle(title) \o "-removed",
      title \o " '" \o PrettyName(node) \o "' has been removed.">>

AddedEntry(title, node) ==
    <<NoneName, "forwards-compatibility", KindOfTitle(title) \o "-added",
      title \o " '" \o PrettyName(node) \o "' has been added.">>

\* The entry is one that the annotations of the matched pair can give.
IsAnnotationEntry(entry, pair) ==
    LET pretty == PrettyName(pair[1])
    IN  \/ entry \in {FlagEntries(pretty, DEPRECATED).set,
                      FlagEntries(pretty, DEPRECATED).unset,
                      FlagEntries(pretty, NO_REPLY).set,
                      FlagEntries(pretty, NO_REPLY).unset}
        \/ /\ entry[3] = "c-symbol-changed"
           /\ entry[4] = "Node '" \o pretty
                         \o "' has changed its C symbol from '"
                         \o CSymbolOf(pair[1]) \o "' to '"
                         \o CSymbolOf(pair[2]) \o "'."
        \/ entry[3] \in EcsCodes /\ entry[4] \in EcsMessages(pretty)

\* The entry is one that position i (from 0) of the matched callable pair
\* can give.
IsArgumentEntryAt(entry, pair, i) ==
    IF i >= Min(Len(pair[1].arguments), Len(pair[2].arguments))
        THEN entry = ExpectedArgumentEntry(pair, i)
        ELSE LET old_arg == pair[1].arguments[i + 1]
                 new_arg == pair[2].arguments[i + 1]
                 about == "Argument " \o ArgumentPrettyName(old_arg)
                          \o " has changed "
             IN  \/ /\ entry[3] \in {"argument-name-changed",
                                     "argument-type-changed"}
                                        \cup DirectionCodes
                    /\ entry[4] \in
                           {about \o "name from '" \o old_arg.name
                                  \o "' to '" \o new_arg.name \o "'.",
                            about \o "type from '"
                                  \o FormatType(old_arg.type) \o "' to '"
                                  \o FormatType(new_arg.type) \o "'.",
                            about \o "direction from '" \o old_arg.direction
                                  \o "' to '" \o new_arg.direction \o "'."}
                 \/ IsAnnotationEntry(entry, <<old_arg, new_arg>>)

\* The entry is one that the matched method, signal or property pair can
\* give.
IsMemberEntry(entry, pair) ==
    \/ IsAnnotationEntry(entry, pair)
    \/ /\ pair[1].kind \in {"method", "signal"}
       /\ \E i \in 0..(Max(Len(pair[1].arguments),
                           Len(pair[2].arguments)) - 1) :
              IsArgumentEntryAt(entry, pair, i)
    \/ /\ pair[1].kind = "property"
       /\ entry[3] \in {"property-type-changed"} \cup AccessCodes
       /\ entry[4] \in
              {"Property '" \o PrettyName(pair[1]) \o "' has changed " \o tail :
                  tail \in {"type from '" \o FormatType(pair[1].type)
                                \o "' to '" \o FormatType(pair[2].type)
                                \o "'."}
                           \cup {"access from '" \o pair[1].access \o "' to '"
                                     \o pair[2].access \o "'" \o dot :
                                    dot \in {".",
                                             ", becoming less restrictive."}}}

\* The positions of the output whose entry passes the test.
Positions(Test(_)) == {i \in 1..Len(_output) : Test(_output[i])}

\* Every position of the first set is before every position of the second.
Before(first, second) == \A i \in first : \A j \in second : i < j

\* The positions of the entries about the a-th old member of a kind of a
\* matched interface pair: its removal, or what its matched pair gives.
OldMemberPositions(title, field, interfaces, a) ==
    LET node == interfaces[1][field][a]
    IN  IF Has(interfaces[2][field], node.name)
            THEN Positions(LAMBDA entry :
                     IsMemberEntry(entry,
                                   <<node, Get(interfaces[2][field],
                                               node.name)>>))
            ELSE Positions(LAMBDA entry : entry = RemovedEntry(title, node))

\* The positions of the entry about the b-th new member of a kind of a
\* matched interface pair: its addition, if the old interface lacks it.
NewMemberPositions(title, field, interfaces, b) ==
    LET node == interfaces[2][field][b]
    IN  IF Has(interfaces[1][field], node.name)
            THEN {}
            ELSE Positions(LAMBDA entry : entry = AddedEntry(title, node))

\* The positions of all entries about the members of one kind.
SectionPositions(title, field, interfaces) ==
    UNION {OldMemberPositions(title, field, interfaces, a) :
              a \in 1..Len(interfaces[1][field])}
        \cup UNION {NewMemberPositions(title, field, interfaces, b) :
                       b \in 1..Len(interfaces[2][field])}

\* Within the members of one kind: the old members in the old interface's
\* order, then the additions in the new interface's order.
SectionOrdered(title, field, interfaces) ==
    /\ \A a, b \in 1..Len(interfaces[1][field]) :
           a < b => Before(OldMemberPositions(title, field, interfaces, a),
                           OldMemberPositions(title, field, interfaces, b))
    /\ \A a \in 1..Len(interfaces[1][field]) :
           \A b \in 1..Len(interfaces[2][field]) :
               Before(OldMemberPositions(title, field, interfaces, a),
                      NewMemberPositions(title, field, interfaces, b))
    /\ \A a, b \in 1..Len(interfaces[2][field]) :
           a < b => Before(NewMemberPositions(title, field, interfaces, a),
                           NewMemberPositions(title, field, interfaces, b))

\* Within a matched callable pair: the argument entries by ascending
\* position, then the callable's annotation entries.
CallableOrdered(pair) ==
    LET n == Max(Len(pair[1].arguments), Len(pair[2].arguments))
        At(i) == Positions(LAMBDA entry : IsArgumentEntryAt(entry, pair, i))
    IN  /\ \A i, k \in 0..(n - 1) : i < k => Before(At(i), At(k))
        /\ \A i \in 0..(n - 1) :
               Before(At(i),
                      Positions(LAMBDA entry : IsAnnotationEntry(entry, pair)))

\* The positions of all entries a matched interface pair gives.
InterfacePairPositions(interfaces) ==
    SectionPositions("Method", "methods", interfaces)
        \cup SectionPositions("Property", "properties", interfaces)
        \cup SectionPositions("Signal", "signals", interfaces)
        \cup Positions(LAMBDA entry : IsAnnotationEntry(entry, interfaces))

\* Within a matched interface pair: methods, then properties, then signals,
\* then the interface's own annotation entries.
InterfacePairOrdered(interfaces) ==
    LET methods == SectionPositions("Method", "methods", interfaces)
        properties == SectionPositions("Property", "properties", interfaces)
        signals == SectionPositions("Signal", "signals", interfaces)
        own == Positions(LAMBDA entry : IsAnnotationEntry(entry, interfaces))
    IN  /\ SectionOrdered("Method", "methods", interfaces)
        /\ SectionOrdered("Property", "properties", interfaces)
        /\ SectionOrdered("Signal", "signals", interfaces)
        /\ Before(methods, properties \cup signals \cup own)
        /\ Before(properties, signals \cup own)
        /\ Before(signals, own)
        /\ \A pair \in MatchedIn(interfaces[1].methods, interfaces[2].methods)
                       \cup MatchedIn(interfaces[1].signals,
                                      interfaces[2].signals) :
               CallableOrdered(pair)

\* The positions of the entries about the a-th interface of the old mapping.
OldInterfacePositions(a) ==
    IF Has(new, old[a].name)
        THEN InterfacePairPositions(<<old[a], Get(new, old[a].name)>>)
        ELSE Positions(LAMBDA entry : entry = RemovedEntry("Interface", old[a]))

\* The positions of the entry about the b-th interface of the new mapping.
NewInterfacePositions(b) ==
    IF Has(old, new[b].name)
        THEN {}
        ELSE Positions(LAMBDA entry : entry = AddedEntry("Interface", new[b]))

EmissionOrdered ==
    /\ \A a, b \in 1..Len(old) :
           a < b => Before(OldInterfacePositions(a), OldInterfacePositions(b))
    /\ \A a \in 1..Len(old) : \A b \in 1..Len(new) :
           Before(OldInterfacePositions(a), NewInterfacePositions(b))
    /\ \A a, b \in 1..Len(new) :
           a < b => Before(NewInterfacePositions(a), NewInterfacePositions(b))
    /\ \A pair \in MatchedInterfaces : InterfacePairOrdered(pair)
    /\ UNION {OldInterfacePositions(a) : a \in 1..Len(old)}
           \cup UNION {NewInterfacePositions(b) : b \in 1..Len(new)}
           = 1..Len(_output)

\* C12: after compare(), the output lists, in the old mapping's order, each
\* old interface's 'interface-removed' entry or the entries of its matched
\* pair, and after all of them the 'interface-added' entries in the new
\* mapping's order; the entries of a matched interface pair are those of its
\* methods (old-keyed removals and matched pairs in the old order, then
\* additions in the new order), then of its properties likewise, then of its
\* signals likewise, then of its own annotations; the entries of a matched
\* callable are those of its arguments by ascending position, then of its
\* annotations; every entry of the output has its place in this order; and
\* calling compare() again gives the same output.
EmissionOrder ==
    /\ [](compared => EmissionOrdered)
    /\ [][compared => _output' = _output]_vars

\* A method that gained an argument and the Deprecated annotation is followed
\* by a removed property and that by an added signal.
EmissionOrderWitness ==
    /\ compared
    /\ Len(_output) = 4
    /\ _output[1][3] = "argument-added"
    /\ _output[2][3] = "deprecated"
    /\ _output[3][3] = "property-removed"
    /\ _output[4][3] = "signal-added"

(***************************************************************************)
(* Comparators constructed with enabled_warnings and disabled_warnings     *)
(* lists, on mappings whose comparison gives entries of all three          *)
(* severities.                                                             *)
(***************************************************************************)
\* The lists of categories and codes handed to the constructor: every
\* sublist of the three categories and two codes.
WarningLists ==
    {(IF i THEN <<"info">> ELSE <<>>)
         \o (IF b THEN <<"backwards-compatibility">> ELSE <<>>)
         \o (IF f THEN <<"forwards-compatibility">> ELSE <<>>)
         \o (IF d THEN <<"deprecated">> ELSE <<>>)
         \o (IF p THEN <<"property-added">> ELSE <<>>) :
        i \in BOOLEAN, f \in BOOLEAN, b \in BOOLEAN, d \in BOOLEAN,
        p \in BOOLEAN}

FilterTrees ==
    {<<>>,
     <<InterfaceJ>>,
     <<Interface("a.I", <<Method("M", <<>>, <<>>)>>, <<>>, <<>>, <<>>)>>,
     <<Interface("a.I",
                 <<Method("M", <<ArgX>>, <<Annotation(DEPRECATED, "true")>>)>>,
                 <<Property("P", <<"s">>, ACCESS_READ, <<>>)>>,
                 <<>>, <<>>),
       InterfaceJ>>}

\* InterfaceComparator.__init__ with both warning lists given.
FilterInit ==
    /\ comparators = <<>>
    /\ old \in FilterTrees
    /\ new \in FilterTrees
    /\ _enabled_warnings \in WarningLists
    /\ _disabled_warnings \in WarningLists
    /\ _output = <<>>
    /\ compared = FALSE
    /\ returned = <<>>
    /\ calls = 0
    /\ signature = <<>>
    /\ _index = 0
    /\ _log = <<>>
    /\ parsed = NotCalled
    /\ rendered = NoneStr
    /\ NoBuilder

FilterSpec == FilterInit /\ [][CmpNext]_vars

\* The categories and codes that a warning list names.
Named(list) == {list[i] : i \in 1..Len(list)}

\* The positions of the output that the filter lets through.
Admitted ==
    {i \in 1..Len(_output) :
        LET level == _output[i][2]
            code == _output[i][3]
        IN  \/ /\ level \in Named(_enabled_warnings)
               /\ level \notin Named(_disabled_warnings)
               /\ code \notin Named(_disabled_warnings)
            \/ /\ code \in Named(_enabled_warnings)
               /\ code \notin Named(_disabled_warnings)}

\* C13: what get_output() returns is the sequence of the entries of the
\* latest compare() at the admitted positions, in their order and each once,
\* where a position is admitted iff its level is enabled and neither its
\* level nor its code is disabled, or its code is enabled and not disabled;
\* with the default lists the whole output is returned.
FilteringMembership ==
    /\ Len(returned) = Cardinality(Admitted)
    /\ \A k \in 1..Len(returned) :
           \E i \in Admitted :
               /\ Cardinality({j \in Admitted : j <= i}) = k
               /\ returned[k] = _output[i]
    /\ ({"info", "forwards-compatibility", "backwards-compatibility"}
            \subseteq Named(_enabled_warnings)
        /\ _disabled_warnings = <<>>) => returned = _output

\* With the level info disabled and the code 'deprecated' enabled, of four
\* entries the second (info, 'deprecated') and the fourth are returned.
FilteringMembershipWitness ==
    /\ compared
    /\ Len(_output) = 4
    /\ _enabled_warnings = <<"forwards-compatibility", "deprecated">>
    /\ _disabled_warnings = <<"info", "property-added">>
    /\ Len(returned) = 2
    /\ returned[1] = _output[2]
    /\ returned[1][2] = "info"
    /\ returned[2] = _output[4]

\* C14: once compare() has been called, a further compare() on the same
\* inputs leaves the stored entries as one call left them, and a further
\* compare() or get_output() returns what the last compare() returned; the
\* stored entries are always those of a single comparison of the inputs.
Repeatable ==
    /\ [][compared => (_output' = _output /\ returned' = returned)]_vars
    /\ [](compared => _output = CompareOutput(old, new))

\* compare() has been called twice on mappings whose comparison gives four
\* entries, of which the filter returns two.
RepeatableWitness ==
    /\ calls = 2
    /\ Len(_output) = 4
    /\ Len(returned) = 2

DictSss == <<"a", "{", "s", "s", "s", "}">>
DictS == <<"a", "{", "s", "}">>
DictSOpen == <<"a", "{", "s">>

\* "a{ss}" parses to an Array whose sole child is a DictEntry of two
\* Strings, with an empty log.
DictionaryParses ==
    (signature = <<"a", "{", "s", "s", "}">> /\ parsed # NotCalled)
        => /\ parsed = [none |-> FALSE,
                        members |-> <<
                            [type |-> "a",
                             members |-> <<
                                 [type |-> "e",
                                  members |-> <<
                                      [type |-> "s", members |-> <<>>],
                                      [type |-> "s", members |-> <<>>]>>]>>]>>]
           /\ _log = <<>>

\* C16 as stated: "a{ss}" parses to Array[DictEntry[String, String]];
\* "a{sss}", "a{s}" and "a{s" each return None, and the logs of the three
\* failures are pairwise distinct.
DictionaryArityAsStated ==
    /\ DictionaryParses
    /\ (signature \in {DictSss, DictS, DictSOpen} /\ parsed # NotCalled)
           => /\ parsed.none
              /\ Len(_log) = 1
              /\ \A other \in {DictSss, DictS, DictSOpen} \ {signature} :
                     _log # ParseRun(other).issues

\* C16: "a{ss}" parses to Array[DictEntry[String, String]]; "a{sss}", "a{s}"
\* and "a{s" each return None with exactly one 'invalid-type' diagnostic:
\* 'Invalid dictionary declaration.' for the third member of "a{sss}", and
\* the same 'Incomplete dictionary declaration.' for both "a{s}" and "a{s".
DictionaryArity ==
    /\ DictionaryParses
    /\ (signature = DictSss /\ parsed # NotCalled)
           => /\ parsed.none
              /\ _log = <<<<"None", "types", "invalid-type",
                            "Invalid dictionary declaration.">>>>
    /\ (signature \in {DictS, DictSOpen} /\ parsed # NotCalled)
           => /\ parsed.none
              /\ _log = <<<<"None", "types", "invalid-type",
                            "Incomplete dictionary declaration.">>>>

\* The dictionary closed after one member has been parsed and refused.
DictionaryArityWitness ==
    /\ signature = DictS
    /\ parsed # NotCalled
    /\ parsed.none
    /\ Len(_log) = 1

RECURSIVE ArityValid(_)
\* Every Array of the type has exactly one child, every Struct at least one,
\* every DictEntry exactly two.
ArityValid(t) ==
    /\ t.type = "a" => Len(t.members) = 1
    /\ t.type = "r" => Len(t.members) >= 1
    /\ t.type = "e" => Len(t.members) = 2
    /\ \A i \in 1..Len(t.members) : ArityValid(t.members[i])

RECURSIVE DictEntriesInArrays(_, _)
\* Every DictEntry of the type is the sole child of an Array; in_array tells
\* whether the type itself is the sole child of one.
DictEntriesInArrays(t, in_array) ==
    /\ t.type = "e" => in_array
    /\ \A i \in 1..Len(t.members) :
           DictEntriesInArrays(t.members[i],
                               t.type = "a" /\ Len(t.members) = 1)

\* The arity part of C17 on the parser's output.
ParsedArityValid ==
    (parsed # NotCalled /\ ~parsed.none)
        => \A i \in 1..Len(parsed.members) : ArityValid(parsed.members[i])

\* C17: in every TypeSignature that a successful parse() returns, every Array
\* has exactly one child, every Struct at least one, every DictEntry exactly
\* two, and every DictEntry is the sole child of an Array (never a member of
\* the signature itself, of a Struct or of another DictEntry).
TypeModelInvariant ==
    /\ ParsedArityValid
    /\ (parsed # NotCalled /\ ~parsed.none)
           => \A i \in 1..Len(parsed.members) :
                  DictEntriesInArrays(parsed.members[i], FALSE)

\* C18: after parse() returns, the log holds at most one diagnostic; parse()
\* returns None exactly when the log holds one diagnostic, and otherwise a
\* TypeSignature of at least one member; the empty string leaves the one
\* 'invalid-type' diagnostic 'Empty type string.'.
FailFast ==
    parsed # NotCalled
        => /\ Len(_log) <= 1
           /\ parsed.none <=> Len(_log) = 1
           /\ ~parsed.none => Len(parsed.members) >= 1
           /\ signature = <<>>
                  => _log = <<<<"None", "types", "invalid-type",
                                "Empty type string.">>>>

\* A signature whose first two characters would each be refused has been
\* parsed: the log holds the diagnostic of the first one only.
FailFastWitness ==
    /\ Len(signature) >= 2
    /\ signature[1] = "r"
    /\ signature[2] = "z"
    /\ parsed # NotCalled
    /\ parsed.none
    /\ _log = <<<<"None", "types", "reserved-type",
                  "Reserved type 'r' must not be used in signatures on D-Bus.">>>>

(***************************************************************************)
(* The AST builder as a state machine: from_xml is called on an XML        *)
(* element with a fresh AstLog and no parent, and add_child() is called on *)
(* the node it returns.  The type parser and the comparator stand idle.    *)
(***************************************************************************)
\* An XML element.
Element(tag, attrib, text, children) ==
    [tag |-> tag, attrib |-> attrib, sourceline |-> 1, text |-> text,
     children |-> children]

RECURSIVE OnLine(_, _)
\* The element written on one line of the document, its children with it.
OnLine(elem, line) ==
    [elem EXCEPT !.sourceline = line,
                 !.children = [i \in 1..Len(elem.children) |->
                                  OnLine(elem.children[i], line)]]

\* The elements as the children of an element on line 1, one on each line.
OnLines(elems) == [i \in 1..Len(elems) |-> OnLine(elems[i], 1 + i)]

\* No attribute.
NoAttrib == [a \in {} |-> ""]

BadNode == Element("badnode", NoAttrib, "", <<>>)

\* The child elements that the lists of siblings are made of: a well-formed
\* annotation, method and argument; an annotation, a method and an argument
\* that lack a required attribute; an unknown tag; an element in another
\* namespace; a documentation element; a comment.
SiblingChoices ==
    {Element("annotation", [name |-> "A", value |-> "v"], "", <<>>),
     Element("annotation", [value |-> "v"], "", <<BadNode>>),
     Element("method", [name |-> "A"], "", <<BadNode>>),
     Element("method", NoAttrib, "", <<BadNode>>),
     Element("arg", [type |-> <<"s">>], "", <<>>),
     Element("arg", [name |-> "A"], "", <<BadNode>>),
     BadNode,
     Element(OTHER_TAG, NoAttrib, "", <<BadNode>>),
     Element("{" \o FDO_DTD \o "}doc", NoAttrib, "doc", <<>>),
     Element(COMMENT, NoAttrib, "comment", <<>>)}

\* A root <node>, an <interface> and a <method> with up to MaxSiblings of
\* these children.
XmlDocuments ==
    {Element(root[1], root[2], "", OnLines(elems)) :
        root \in {<<"node", NoAttrib>>, <<"interface", [name |-> "I.I"]>>,
                  <<"method", [name |-> "A"]>>},
        elems \in SeqsUpTo(SiblingChoices, MaxSiblings)}

\* The attributes of a well-formed element of the tag with the name.
AttribOf(tag, name) ==
    CASE tag = "property" ->
             [name |-> name, type |-> <<"s">>, access |-> "read"]
      [] tag = "arg" -> [name |-> name, type |-> <<"s">>]
      [] OTHER -> [name |-> name]

\* One element of each class, without children.
ClassTags ==
    {"node", "interface", "method", "signal", "property", "arg", "annotation"}

AttachDocuments ==
    {Element(tag, AttribOf(tag, "I.I"), "", <<>>) : tag \in ClassTags}

\* The children handed to add_child(): nodes built by from_xml, with a log
\* of their own and no parent, from elements of each class on two lines,
\* named "A" or "/", and from a <node> without a name.
ApiChildren ==
    {FromXml(ClassOfTag(elem.tag), elem, NoneName,
             [issues |-> <<>>, raised |-> FALSE], NoNode).res :
        elem \in {OnLine(Element(tag, AttribOf(tag, name), "", <<>>), line) :
                     tag \in ClassTags, name \in {"A", "/"}, line \in {2, 3}}
                 \cup {OnLine(Element("node", NoAttrib, "", <<>>), 2)}}

BuilderInit(documents) ==
    /\ comparators = <<>>
    /\ debug \in BOOLEAN
    /\ xml \in documents
    /\ log = <<>>
    /\ built = NoNode
    /\ done = FALSE
    /\ raised = FALSE
    /\ last_child = NoNode
    /\ result = NoneName
    /\ attaches = 0
    /\ signature = <<>>
    /\ _index = 0
    /\ _log = <<>>
    /\ parsed = NotCalled
    /\ rendered = NoneStr
    /\ old = <<>>
    /\ new = <<>>
    /\ _enabled_warnings = <<>>
    /\ _disabled_warnings = <<>>
    /\ _output = <<>>
    /\ compared = FALSE
    /\ returned = <<>>
    /\ calls = 0

\* cls.from_xml(xml, None, log) for the class of the element's tag.
from_xml ==
    LET call == FromXml(ClassOfTag(xml.tag), xml, NoneName,
                        [issues |-> log, raised |-> FALSE], NoNode)
    IN  /\ ~done
        /\ built' = call.res
        /\ log' = call.st.issues
        /\ raised' = call.st.raised
        /\ done' = TRUE
        /\ UNCHANGED <<debug, xml, last_child, result, attaches>>
        /\ UNCHANGED typeVars
        /\ UNCHANGED cmpVars

\* built.add_child(child) for a child of a class that the node contains.
add_child ==
    /\ done
    /\ ~raised
    /\ built # NoNode
    /\ attaches < MaxAttach
    /\ \E child \in ApiChildren :
           /\ child.kind \in TypeContainers(built.kind)
           /\ LET call == AddChildTo(built, child,
                                     [issues |-> log, raised |-> FALSE])
              IN  /\ built' = call.self
                  /\ last_child' = call.child
                  /\ log' = call.st.issues
                  /\ raised' = call.st.raised
                  /\ result' = call.returned
    /\ attaches' = attaches + 1
    /\ UNCHANGED <<debug, xml, done>>
    /\ UNCHANGED typeVars
    /\ UNCHANGED cmpVars

XmlInit == BuilderInit(XmlDocuments)
XmlSpec == XmlInit /\ [][from_xml]_vars

AttachInit == BuilderInit(AttachDocuments)
AttachNext == from_xml \/ add_child
AttachSpec == AttachInit /\ [][AttachNext]_vars

\* The entries that the step appends to the log.
Logged == SubSeq(log', Len(log) + 1, Len(log'))

\* An add_child() step whose child is of one of the name-keyed classes given
\* and bears a name that the node's container of that class already holds:
\* the call returns False without raising, the log grows by entries of which
\* exactly one has the code 'duplicate-<class>', and the node (its children
\* list and its containers) is as before.  An add_child() step whose child
\* is an argument: the argument is appended and True is returned.
AttachStepOf(kinds) ==
    attaches' = attaches + 1
        => LET child == last_child'
               kind == child.kind
               container == built.containers[kind]
           IN  /\ (kind \in kinds /\ Has(container, child.name))
                      => /\ ~raised'
                         /\ result' = "False"
                         /\ SubSeq(log', 1, Len(log)) = log
                         /\ Cardinality({i \in 1..Len(Logged) :
                                Logged[i][3] = "duplicate-" \o kind}) = 1
                         /\ built' = built
                         /\ Get(built'.containers[kind], child.name)
                                = Get(container, child.name)
               /\ kind = "argument"
                      => /\ ~raised'
                         /\ result' = "True"
                         /\ built'.children = Append(built.children, child)
                         /\ built'.containers[kind] = Append(container, child)
                         /\ log' = log

\* C19: for every name-keyed class of child (node, interface, method,
\* signal, property, annotation), add_child() of a child whose name is
\* already in the parent's container logs exactly one 'duplicate-<class>'
\* diagnostic, returns False without raising and leaves the parent's
\* children list and container as they were, the first-attached child
\* staying stored under the name; an argument is never a duplicate and is
\* always appended.
DuplicateAttach ==
    [][AttachStepOf({"node", "interface", "method", "signal", "property",
                     "annotation"})]_vars

\* The child element of the document's root is an element proper that lies
\* in no namespace.
Plain(elem) ==
    /\ elem.tag # COMMENT
    /\ elem.tag \notin DOCSTRING_TAGS \cup {OTHER_TAG}

\* The child element bears a tag that the root's class does not build.
UnknownTag(elem) ==
    Plain(elem) /\ elem.tag \notin DOMAIN ChildrenTypes(ClassOfTag(xml.tag))

\* The required attributes that the child element lacks, in the order of
\* its class's required_attributes.
Lacking(elem) ==
    LET IsLacking(a) == a \notin DOMAIN elem.attrib
    IN  SelectSeq(RequiredAttributes(ClassOfTag(elem.tag)), IsLacking)

\* The child element bears a tag that the root's class builds, and lacks a
\* required attribute.
LacksAttribute(elem) ==
    Plain(elem) /\ ~UnknownTag(elem) /\ Lacking(elem) # <<>>

\* How the messages on the root's own child elements end.
InRoot ==
    IF xml.tag = "node" /\ "name" \notin DOMAIN xml.attrib
        THEN "' in root."
        ELSE "' in " \o ClassOfTag(xml.tag) \o " '" \o xml.attrib.name \o "'."

\* The diagnostics of one defective child element of the root: 'unknown-node'
\* for an unknown tag, 'missing-attribute' for each attribute lacking; none
\* for any other element.
DefectsOf(elem) ==
    IF UnknownTag(elem)
        THEN <<<<"None", "ast", "unknown-node",
                 "Unknown node '" \o elem.tag \o InRoot>>>>
    ELSE IF LacksAttribute(elem)
        THEN [i \in 1..Len(Lacking(elem)) |->
                 <<"None", "ast", "missing-attribute",
                   "Missing required attribute '" \o Lacking(elem)[i]
                   \o "' in " \o elem.tag \o ".">>]
    ELSE <<>>

RECURSIVE DefectsOfAll(_)
\* The diagnostics of the defective elements of the list, in document order.
DefectsOfAll(elems) ==
    IF elems = <<>> THEN <<>>
    ELSE DefectsOf(Head(elems)) \o DefectsOfAll(Tail(elems))

\* The entries of the log on the root's own child elements: every
\* 'missing-attribute', and the 'unknown-node' entries that name the root.
OfRootChildren ==
    LET OnChild(entry) ==
            \/ entry[3] = "missing-attribute"
            \/ \E tag \in {xml.children[i].tag : i \in 1..Len(xml.children)} :
                   entry[4] = "Unknown node '" \o tag \o InRoot
    IN  SelectSeq(log, OnChild)

\* The child elements of the root that are built: of a known tag, with
\* every required attribute.
BuiltChildren ==
    {i \in 1..Len(xml.children) :
        /\ Plain(xml.children[i])
        /\ ~UnknownTag(xml.children[i])
        /\ ~LacksAttribute(xml.children[i])}

\* C20: after the children of a node have been built from XML, each child
\* element that lacks a required attribute has logged 'missing-attribute',
\* is not among the node's children, and none of its own child elements has
\* been processed; each child element of an unknown tag in no namespace has
\* logged 'unknown-node'; an element in a namespace has logged nothing; and
\* every later sibling has been processed, so that the log holds the
\* diagnostics of all defective siblings in document order.  (Besides these
\* the log holds one entry for the unknown child element of each child that
\* was built, and one for each built child that was not attached.)
RecoveryAcrossSiblings ==
    done
        => /\ OfRootChildren = DefectsOfAll(xml.children)
           /\ built # NoNode
                  => /\ \A i \in 1..Len(xml.children) :
                            (i \notin BuiltChildren)
                                => \A j \in 1..Len(built.children) :
                                       built.children[j].line_number
                                           # xml.children[i].sourceline
                     /\ Len(log) = Len(OfRootChildren)
                            + Cardinality({i \in BuiltChildren :
                                  xml.children[i].children # <<>>})
                            + Cardinality(BuiltChildren) - Len(built.children)

(***************************************************************************)
(* dbusapi/interfaceparser.py: the InterfaceParser.  Its state is threaded *)
(* through the calls as a record of self._output, of the issues logged on  *)
(* the AstLogs of the nodes that the parse constructs (each node has a     *)
(* log of its own; the record holds their entries in the order they are    *)
(* logged) and of whether an exception is propagating.  A dict is the      *)
(* sequence of its values in insertion order.                              *)
(***************************************************************************)
\* self._filename
FILENAME == "file.xml"

\* InterfaceParser.get_output_codes: the literals 'node-naming' and
\* 'duplicate-node' stand without a comma between them and are one string.
ParserOutputCodes ==
    <<"unknown-node", "node-naming" \o "duplicate-node",
      "duplicate-interface", "missing-attribute", "duplicate-method",
      "duplicate-signal", "duplicate-property", "invalid-signature">>

\* InterfaceParser._issue_output
ParserIssueOutput(st, code, message) ==
    [st EXCEPT !.output = Append(@, <<FILENAME, "parser", code, message>>)]

\* "Missing required attribute '%s' in <what>."
MissingAttribute(st, attribute, what) ==
    ParserIssueOutput(st, "missing-attribute",
        "Missing required attribute '" \o attribute \o "' in " \o what
        \o ".")

\* dict[child.name] = child
DictPut(dict, child) ==
    IF Has(dict, child.name)
        THEN [i \in 1..Len(dict) |->
                 IF dict[i].name = child.name THEN child ELSE dict[i]]
        ELSE Append(dict, child)

\* The attributes of a node that has a name and a value only.
NameValue(name, value) ==
    [name |-> name, type_ |-> NoneName, access |-> NoneName,
     direction |-> NoneName, value |-> value]

RECURSIVE AddAll(_, _, _)
\* "for child in ...: self._add_child(child)" in the constructors of the
\* node classes.
AddAll(self, children, st) ==
    IF children = <<>>
        THEN [self |-> self, st |-> st]
        ELSE LET added == AddChildTo(self, Head(children), st)
             IN  AddAll(added.self, Tail(children), added.st)

\* ast.<Class>(name, ...) with a log of its own, on the children that the
\* constructor adds, in the order it adds them.
NewAst(made, children) ==
    LET added == AddAll(made.res, children, made.st)
    IN  [res |-> added.self, st |-> added.st]

\* TypeParser(type).parse() at the end of _parse_property and _parse_arg:
\* "if not type" reads get_output()[1], the second entry of the log, to
\* issue 'invalid-signature' (IndexError where the log has one entry);
\* otherwise the TypeSignature is handed to the constructor of the node,
\* which constructs a TypeParser on it, and parse() takes len() of it
\* (TypeError).  No node is returned.
ParsedType(st, type_) ==
    LET run == ParseRun(type_)
    IN  IF run.out.none /\ Len(run.issues) >= 2
            THEN ParserIssueOutput(st, "invalid-signature", run.issues[2])
            ELSE [st EXCEPT !.raised = TRUE]

RECURSIVE ParseAnnotationLoop(_, _, _)
\* The loop of _parse_annotation over the children of the element.
ParseAnnotationLoop(elems, where, st) ==
    IF elems = <<>>
        THEN st
    ELSE IF IgnoreNode(Head(elems))
        THEN ParseAnnotationLoop(Tail(elems), where, st)
    ELSE ParseAnnotationLoop(Tail(elems), where,
             ParserIssueOutput(st, "unknown-node",
                 "Unknown node '" \o Head(elems).tag \o "' in annotation '"
                 \o where \o "'."))

\* InterfaceParser._parse_annotation
ParseAnnotation(elem, parent_name, st) ==
    IF "name" \notin DOMAIN elem.attrib
        THEN [res |-> NoNode,
              st |-> MissingAttribute(st, "name", "annotation")]
    ELSE IF "value" \notin DOMAIN elem.attrib
        THEN [res |-> NoNode,
              st |-> MissingAttribute(st, "value", "annotation")]
    ELSE NewAst(NewNode("annotation",
                        NameValue(elem.attrib.name, elem.attrib.value),
                        ParseAnnotationLoop(elem.children,
                            parent_name \o "." \o elem.attrib.name, st)),
                <<>>)

\* "annotations[annotation.name] = annotation" in the loops, unless
\* _parse_annotation has returned None.
WithAnnotation(acc, annotation) ==
    [acc EXCEPT !.annotations = IF annotation.res = NoNode THEN @
                                ELSE DictPut(@, annotation.res),
                !.st = annotation.st]

RECURSIVE ParseAnnotatedLoop(_, _, _, _)
\* The loop of _parse_property and of _parse_arg over the children of the
\* element: the annotations dict and the state after it.
ParseAnnotatedLoop(elems, pretty, where, acc) ==
    IF elems = <<>>
        THEN acc
    ELSE LET node == Head(elems)
         IN  IF node.tag = "annotation"
                 THEN ParseAnnotatedLoop(Tail(elems), pretty, where,
                          WithAnnotation(acc,
                              ParseAnnotation(node, pretty, acc.st)))
             ELSE IF IgnoreNode(node)
                 THEN ParseAnnotatedLoop(Tail(elems), pretty, where, acc)
             ELSE ParseAnnotatedLoop(Tail(elems), pretty, where,
                      [acc EXCEPT !.st =
                          ParserIssueOutput(@, "unknown-node",
                              "Unknown node '" \o node.tag \o "' in "
                              \o where \o ".")])

\* InterfaceParser._parse_property
ParseProperty(elem, interface_name, st) ==
    IF "name" \notin DOMAIN elem.attrib
        THEN [res |-> NoNode, st |-> MissingAttribute(st, "name", "property")]
    ELSE IF "type" \notin DOMAIN elem.attrib
        THEN [res |-> NoNode, st |-> MissingAttribute(st, "type", "property")]
    ELSE IF "access" \notin DOMAIN elem.attrib
        THEN [res |-> NoNode,
              st |-> MissingAttribute(st, "access", "property")]
    ELSE [res |-> NoNode,
          st |-> ParsedType(
                     ParseAnnotatedLoop(
                         elem.children,
                         interface_name \o "." \o elem.attrib.name,
                         "property '" \o interface_name \o "."
                             \o elem.attrib.name \o "'",
                         [annotations |-> <<>>, st |-> st]).st,
                     elem.attrib.type)]

\* InterfaceParser._parse_arg
ParseArg(elem, parent_name, st) ==
    IF "type" \notin DOMAIN elem.attrib
        THEN [res |-> NoNode, st |-> MissingAttribute(st, "type", "arg")]
    ELSE LET pretty_arg_name == IF "name" \in DOMAIN elem.attrib
                                    THEN elem.attrib.name
                                    ELSE "unnamed"
         IN  [res |-> NoNode,
              st |-> ParsedType(
                         ParseAnnotatedLoop(
                             elem.children, pretty_arg_name,
                             "arg '" \o pretty_arg_name \o "' of '"
                                 \o parent_name \o "'",
                             [annotations |-> <<>>, st |-> st]).st,
                         elem.attrib.type)]

\* "args.append(arg)" in the loop, unless _parse_arg has returned None.
WithArg(acc, arg) ==
    [acc EXCEPT !.args = IF arg.res = NoNode THEN @ ELSE Append(@, arg.res),
                !.st = arg.st]

RECURSIVE ParseCallableLoop(_, _, _, _)
\* The loop of _parse_method and of _parse_signal over the children of the
\* element: the args list, the annotations dict and the state after it, or
\* when an exception leaves it.
ParseCallableLoop(elems, tag, pretty, acc) ==
    IF elems = <<>> \/ acc.st.raised
        THEN acc
    ELSE LET node == Head(elems)
         IN  IF node.tag = "arg"
                 THEN ParseCallableLoop(Tail(elems), tag, pretty,
                          WithArg(acc, ParseArg(node, pretty, acc.st)))
             ELSE IF node.tag = "annotation"
                 THEN ParseCallableLoop(Tail(elems), tag, pretty,
                          WithAnnotation(acc,
                              ParseAnnotation(node, pretty, acc.st)))
             ELSE IF IgnoreNode(node)
                 THEN ParseCallableLoop(Tail(elems), tag, pretty, acc)
             ELSE ParseCallableLoop(Tail(elems), tag, pretty,
                      [acc EXCEPT !.st =
                          ParserIssueOutput(@, "unknown-node",
                              "Unknown node '" \o node.tag \o "' in " \o tag
                              \o " '" \o pretty \o "'.")])

\* What _parse_method and _parse_signal return on the list and the dict
\* that their loop has filled: ast.Method(name, args, annotations) and
\* ast.Signal(name, args, annotations).
ParsedCallable(tag, elem, loop) ==
    IF loop.st.raised
        THEN [res |-> NoNode, st |-> loop.st]
        ELSE NewAst(NewNode(tag, NameValue(elem.attrib.name, NoneName),
                            loop.st),
                    loop.annotations \o loop.args)

\* InterfaceParser._parse_method and InterfaceParser._parse_signal, for the
\* tag "method" and the tag "signal".
ParseCallable(tag, elem, interface_name, st) ==
    IF "name" \notin DOMAIN elem.attrib
        THEN [res |-> NoNode, st |-> MissingAttribute(st, "name", tag)]
        ELSE ParsedCallable(tag, elem,
                 ParseCallableLoop(
                     elem.children, tag,
                     interface_name \o "." \o elem.attrib.name,
                     [args |-> <<>>, annotations |-> <<>>, st |-> st]))

\* What the loop of _parse_interface does with what _parse_method,
\* _parse_signal or _parse_property has returned for a child of the tag:
\* "methods[method.name] = method" unless the name is in the dict.
WithMember(acc, name, tag, dict, member) ==
    IF member.res = NoNode
        THEN [acc EXCEPT !.st = member.st]
    ELSE IF Has(acc[dict], member.res.name)
        THEN [acc EXCEPT !.st =
                 ParserIssueOutput(
                     member.st, "duplicate-" \o tag,
                     "Duplicate " \o tag \o " definition '" \o name \o "."
                     \o PrettyName(member.res) \o "'.")]
    ELSE [acc EXCEPT !.st = member.st,
                     ![dict] = Append(@, member.res)]

RECURSIVE ParseInterfaceLoop(_, _, _)
\* The loop of _parse_interface over the children of the element: the four
\* dicts and the state after it, or when an exception leaves it.
ParseInterfaceLoop(elems, name, acc) ==
    IF elems = <<>> \/ acc.st.raised
        THEN acc
    ELSE LET node == Head(elems)
         IN  IF node.tag = "method"
                 THEN ParseInterfaceLoop(Tail(elems), name,
                          WithMember(acc, name, "method", "methods",
                              ParseCallable("method", node, name, acc.st)))
             ELSE IF node.tag = "signal"
                 THEN ParseInterfaceLoop(Tail(elems), name,
                          WithMember(acc, name, "signal", "signals",
                              ParseCallable("signal", node, name, acc.st)))
             ELSE IF node.tag = "property"
                 THEN ParseInterfaceLoop(Tail(elems), name,
                          WithMember(acc, name, "property", "properties",
                              ParseProperty(node, name, acc.st)))
             ELSE IF node.tag = "annotation"
                 THEN ParseInterfaceLoop(Tail(elems), name,
                          WithAnnotation(acc,
                              ParseAnnotation(node, name, acc.st)))
             ELSE IF IgnoreNode(node)
                 THEN ParseInterfaceLoop(Tail(elems), name, acc)
             ELSE ParseInterfaceLoop(Tail(elems), name,
                      [acc EXCEPT !.st =
                          ParserIssueOutput(@, "unknown-node",
                              "Unknown node '" \o node.tag
                              \o "' in interface '" \o name \o "'.")])

\* What _parse_interface returns on the dicts that its loop has filled:
\* ast.Interface(name, methods, properties, signals, annotations).
ParsedInterface(elem, loop) ==
    IF loop.st.raised
        THEN [res |-> NoNode, st |-> loop.st]
        ELSE NewAst(NewNode("interface",
                            NameValue(elem.attrib.name, NoneName), loop.st),
                    loop.annotations \o loop.methods \o loop.signals
                        \o loop.properties)

\* InterfaceParser._parse_interface
ParseInterface(elem, st) ==
    IF "name" \notin DOMAIN elem.attrib
        THEN [res |-> NoNode, st |-> MissingAttribute(st, "name", "interface")]
        ELSE ParsedInterface(elem,
                 ParseInterfaceLoop(
                     elem.children, elem.attrib.name,
                     [methods |-> <<>>, signals |-> <<>>,
                      properties |-> <<>>, annotations |-> <<>>,
                      st |-> st]))

\* name[0], the first character of a name that is not empty.
FirstChar(name) == CharsOf(name)[1]

RECURSIVE ParseNode(_, _)
RECURSIVE ParseNodeLoop(_, _)

\* What the loop of _parse_node does with the sub-node that _parse_node has
\* returned for a <node> child.
SubNode(sub_node, acc) ==
    IF sub_node.st.raised
        THEN [acc EXCEPT !.st = sub_node.st]
    ELSE IF NotName(sub_node.res.name)
        THEN [acc EXCEPT !.st =
                 MissingAttribute(sub_node.st, "name", "non-root node")]
    ELSE IF FirstChar(sub_node.res.name) = "/"
        THEN [acc EXCEPT !.st =
                 ParserIssueOutput(sub_node.st, "node-naming",
                     "Non-root node name is not a relative object path '"
                     \o sub_node.res.name \o "'.")]
    ELSE IF Has(acc.nodes, sub_node.res.name)
        THEN [acc EXCEPT !.st =
                 ParserIssueOutput(sub_node.st, "duplicate-node",
                     "Duplicate node definition '"
                     \o PrettyName(sub_node.res) \o "'.")]
    ELSE [acc EXCEPT !.st = sub_node.st,
                     !.nodes = Append(@, sub_node.res)]

\* What the loop of _parse_node does with what _parse_interface has returned
\* for an <interface> child.
SubInterface(interface, acc) ==
    IF interface.res = NoNode
        THEN [acc EXCEPT !.st = interface.st]
    ELSE IF Has(acc.interfaces, interface.res.name)
        THEN [acc EXCEPT !.st =
                 ParserIssueOutput(interface.st, "duplicate-interface",
                     "Duplicate interface definition '"
                     \o PrettyName(interface.res) \o "'.")]
    ELSE [acc EXCEPT !.st = interface.st,
                     !.interfaces = Append(@, interface.res)]

\* The loop of _parse_node over the children of the element: the two dicts
\* and the state after it, or when an exception leaves it.
ParseNodeLoop(elems, acc) ==
    IF elems = <<>> \/ acc.st.raised
        THEN acc
    ELSE LET node == Head(elems)
         IN  IF node.tag = "interface"
                 THEN ParseNodeLoop(Tail(elems),
                          SubInterface(ParseInterface(node, acc.st), acc))
             ELSE IF node.tag = "node"
                 THEN ParseNodeLoop(Tail(elems),
                          SubNode(ParseNode(node, acc.st), acc))
             ELSE IF IgnoreNode(node)
                 THEN ParseNodeLoop(Tail(elems), acc)
             ELSE ParseNodeLoop(Tail(elems),
                      [acc EXCEPT !.st =
                          ParserIssueOutput(@, "unknown-node",
                              "Unknown node '" \o node.tag \o "' in root.")])

\* What _parse_node returns on the dicts that its loop has filled:
\* ast.Node(name, interfaces, nodes).
ParsedNode(node_node, loop) ==
    IF loop.st.raised
        THEN [res |-> NoNode, st |-> loop.st]
        ELSE NewAst(NewNode("node",
                            NameValue(IF "name" \in DOMAIN node_node.attrib
                                          THEN node_node.attrib.name
                                          ELSE NoneName,
                                      NoneName),
                            loop.st),
                    loop.interfaces \o loop.nodes)

\* InterfaceParser._parse_node
ParseNode(node_node, st) ==
    ParsedNode(node_node,
               ParseNodeLoop(node_node.children,
                             [interfaces |-> <<>>, nodes |-> <<>>,
                              st |-> st]))

\* The root that _parse_root goes on with: the first <node> child of a
\* tp:spec root, if there is one.
UnwrappedRoot(root) ==
    LET nodes == {i \in 1..Len(root.children) :
                     root.children[i].tag = "node"}
    IN  IF root.tag = "{" \o TP_DTD \o "}spec" /\ nodes # {}
            THEN root.children[CHOOSE i \in nodes : \A j \in nodes : i <= j]
            ELSE root

\* What _parse_root returns on the node that _parse_node has returned for
\* the root.
ParsedRoot(root_node) ==
    IF root_node.st.raised
        THEN root_node
    ELSE IF ~NotName(root_node.res.name)
            /\ FirstChar(root_node.res.name) # "/"
        THEN [res |-> NoNode,
              st |-> ParserIssueOutput(root_node.st, "node-naming",
                         "Root node name is not an absolute object path '"
                         \o root_node.res.name \o "'.")]
    ELSE root_node

\* _parse_root on the root that it goes on with.
ParseUnwrapped(root, st) ==
    IF root.tag # "node"
        THEN [res |-> NoNode,
              st |-> ParserIssueOutput(st, "unknown-node",
                         "Unknown root node '" \o root.tag \o "'.")]
        ELSE ParsedRoot(ParseNode(root, st))

\* InterfaceParser._parse_root
ParseRoot(root, st) == ParseUnwrapped(UnwrappedRoot(root), st)

\* What parse() leaves and returns on what _parse_root has returned.
Squashed(call) ==
    [output |-> call.st.output, issues |-> call.st.issues,
     raised |-> call.st.raised,
     out |-> IF call.st.raised \/ call.st.output # <<>>
                 THEN NoNode
                 ELSE call.res]

(***************************************************************************)
(* The InterfaceParser as a state machine: an InterfaceParser is           *)
(* constructed on the file of a document, and parse() is called on it.     *)
(* "xml" is the root of the document, "_output" the parser's self._output, *)
(* "log" the issues on the AstLogs of the nodes constructed, "built" the   *)
(* value that parse() returns.                                             *)
(***************************************************************************)
\* The child elements of the root <node> of the documents.
RootChildChoices ==
    {Element("interface", [name |-> "I.I"], "", <<>>),
     Element("interface", [name |-> "1"], "", <<>>),
     Element("interface", NoAttrib, "", <<>>),
     Element("interface", [name |-> "I.I"], "",
             <<Element("method", [name |-> "A"], "",
                       <<Element("annotation", [name |-> "A", value |-> "v"],
                                 "", <<BadNode>>)>>),
               Element("signal", [name |-> "A"], "", <<BadNode>>),
               Element("annotation", [name |-> "A"], "", <<>>)>>),
     Element("interface", [name |-> "I.I"], "",
             <<Element("method", [name |-> "1"], "", <<>>),
               Element("method", NoAttrib, "", <<>>),
               Element(OTHER_TAG, NoAttrib, "", <<>>)>>),
     Element("interface", [name |-> "I.I"], "",
             <<Element("signal", [name |-> "A"], "", <<>>),
               Element("signal", [name |-> "A"], "", <<>>),
               Element("method", [name |-> "A"], "", <<>>),
               Element("method", [name |-> "A"], "", <<>>)>>),
     Element("interface", [name |-> "I.I"], "",
             <<Element("method", [name |-> "A"], "",
                       <<Element("arg", [type |-> <<"s">>], "", <<>>)>>)>>),
     Element("interface", [name |-> "I.I"], "",
             <<Element("signal", [name |-> "A"], "",
                       <<Element("arg", [name |-> "A", type |-> <<"z">>], "",
                                 <<BadNode>>)>>)>>),
     Element("interface", [name |-> "I.I"], "",
             <<Element("method", [name |-> "A"], "",
                       <<Element("arg", [name |-> "A"], "", <<>>)>>),
               BadNode>>),
     Element("interface", [name |-> "I.I"], "",
             <<Element("property",
                       [name |-> "A", type |-> <<"s">>, access |-> "read"],
                       "", <<BadNode>>)>>),
     Element("interface", [name |-> "I.I"], "",
             <<Element("property", [name |-> "A", type |-> <<"s">>], "",
                       <<>>)>>),
     Element("node", [name |-> "A"], "", <<>>),
     Element("node", [name |-> "/A"], "", <<>>),
     Element("node", [name |-> "."], "", <<>>),
     Element("node", NoAttrib, "", <<BadNode>>),
     BadNode,
     Element(OTHER_TAG, NoAttrib, "", <<BadNode>>)}

\* The attrib of a root <node>: no name, an empty name, absolute object
\* paths, a relative one, and a name that begins with two slashes.
RootAttribs ==
    {NoAttrib, [name |-> ""], [name |-> "/"], [name |-> "/A"],
     [name |-> "A/1"], [name |-> "//"]}

\* The documents: a root <node> with up to MaxElements of the children
\* above; a root that is no <node>; a tp:spec root around a <node>.
ParserDocuments ==
    {Element("node", attrib, "", OnLines(elems)) :
        attrib \in RootAttribs,
        elems \in SeqsUpTo(RootChildChoices, MaxElements)}
    \cup {Element("notnode", NoAttrib, "", <<BadNode>>)}
    \cup {Element("{" \o TP_DTD \o "}spec", NoAttrib, "",
                  <<BadNode, Element("node", attrib, "", <<>>)>>) :
             attrib \in RootAttribs}

ParserInit == BuilderInit(ParserDocuments)

\* InterfaceParser.parse: self._output is emptied, the root is parsed, and
\* the tree is returned unless self._output holds an entry.
parse ==
    /\ ~done
    /\ \E call \in {Squashed(ParseRoot(xml, [output |-> <<>>,
                                             issues |-> <<>>,
                                             raised |-> FALSE]))} :
           /\ _output' = call.output
           /\ log' = call.issues
           /\ raised' = call.raised
           /\ built' = call.out
    /\ done' = TRUE
    /\ UNCHANGED <<debug, xml, last_child, result, attaches>>
    /\ UNCHANGED typeVars
    /\ UNCHANGED <<comparators, old, new, _enabled_warnings,
                   _disabled_warnings, compared, returned, calls>>

ParserSpec == ParserInit /\ [][parse]_vars

\* The element that precedes the one on the line among the children of the
\* document's root, or BadNode for the first of them.
Preceding(line) ==
    IF line > 2 THEN xml.children[line - 2] ELSE BadNode

\* C21: a child built from XML bears the text of an XML comment only if the
\* comment is the element immediately before the child's own element: a
\* comment that any other element (a built child, a documentation element,
\* an element in another namespace, an unknown element) separates from the
\* child is not given to it.
CommentsNeverLeak ==
    (done /\ built # NoNode)
        => \A j \in 1..Len(built.children) :
               LET child == built.children[j]
                   before == Preceding(child.line_number)
               IN  child.comment = IF before.tag = COMMENT
                                       THEN before.text
                                       ELSE NoneName

(***************************************************************************)
(* Documents with one interface, one method or one signal, of every name   *)
(* of the model.                                                           *)
(***************************************************************************)
NameDocuments ==
    {Element("node", NoAttrib, "",
             OnLines(<<Element("interface", [name |-> NameStrings[chars]],
                               "", <<>>)>>)) : chars \in Names}
    \cup
    {Element("interface", [name |-> "I.I"], "",
             OnLines(<<Element(tag, [name |-> NameStrings[chars]],
                               "", <<>>)>>)) :
        tag \in {"method", "signal"}, chars \in Names}

NamesInit == BuilderInit(NameDocuments)
NamesSpec == NamesInit /\ [][from_xml]_vars

\* The characters from the i-th on are one element, [A-Za-z_][A-Za-z0-9_]*,
\* up to the end of the name.
IsElement(chars) ==
    /\ chars # <<>>
    /\ chars[1] \in Letters
    /\ \A i \in 1..Len(chars) : chars[i] \in Alphanumerics

\* The name is made, in its entirety, of so many elements or more, with
\* dots between them.
IsDotted(chars, elements) ==
    LET dots == {i \in 1..Len(chars) : chars[i] = "."}
        bounds == {0, Len(chars) + 1} \cup dots
    IN  /\ Cardinality(dots) + 1 >= elements
        /\ \A i \in bounds : \A j \in bounds :
               (i < j /\ ~\E k \in bounds : i < k /\ k < j)
                   => IsElement(SubSeq(chars, i + 1, j - 1))

\* The element of the document that bears the name.
Named1 == xml.children[1]

\* C24: an Interface built logs no 'interface-name' diagnostic exactly if
\* its name has at most 255 characters and is, in its entirety, two or more
\* elements [A-Za-z_][A-Za-z0-9_]* with dots between them; a Method or a
\* Signal built logs no 'method-name' / 'signal-name' diagnostic exactly if
\* its name has at most 255 characters and is, in its entirety, one such
\* element.  In either case the node is built and attached to its parent.
NameGrammar ==
    (done /\ ~raised)
        => LET elem == Named1
               chars == CharsOf(elem.attrib.name)
               well_formed ==
                   /\ Len(chars) <= 255
                   /\ IF elem.tag = "interface"
                          THEN IsDotted(chars, 2)
                          ELSE IsElement(chars)
               code == elem.tag \o "-name"
           IN  /\ (\A i \in 1..Len(log) : log[i][3] # code) <=> well_formed
               /\ built # NoNode
               /\ Len(built.children) = 1
               /\ built.children[1].kind = elem.tag
               /\ built.children[1].name = elem.attrib.name

\* InterfaceComparator.get_output_codes: the literals 'undeprecated' and
\* 'c-symbol-changed' stand without a comma between them, which makes them
\* one string.
ComparatorOutputCodes ==
    <<"interface-added", "interface-removed", "deprecated",
      "undeprecated" \o "c-symbol-changed",
      "reply-added", "reply-removed",
      "ecs-changed-true-invalidates", "ecs-changed-true-false",
      "ecs-changed-true-const", "ecs-changed-invalidates-true",
      "ecs-changed-invalidates-false", "ecs-changed-invalidates-const",
      "ecs-changed-false-invalidates", "ecs-changed-false-true",
      "ecs-changed-false-const", "ecs-changed-const-invalidates",
      "ecs-changed-const-true", "ecs-changed-const-false",
      "method-added", "method-removed", "property-added",
      "property-removed", "signal-added", "signal-removed",
      "argument-added", "argument-removed", "property-type-changed",
      "property-access-changed-read-readwrite",
      "property-access-changed-read-write",
      "property-access-changed-write-read",
      "property-access-changed-write-readwrite",
      "property-access-changed-readwrite-read",
      "property-access-changed-readwrite-write",
      "argument-name-changed", "argument-type-changed",
      "argument-direction-changed-in-out",
      "argument-direction-changed-out-in">>

\* The entry is among those that get_output() returns.
Listed(entry) ==
    \E j \in 1..Len(_output) :
        /\ _output[j][3] = entry[3]
        /\ _output[j][4] = entry[4]

\* C22: InterfaceParser.parse() returns a tree only if no diagnostic was
\* produced during the parse, those that the AST constructors log included;
\* whenever one is produced the call returns None, and get_output() lists
\* the diagnostic.
AnyDiagnosticFails ==
    done => /\ built # NoNode => (_output = <<>> /\ log = <<>>)
            /\ (_output # <<>> \/ log # <<>>) => (~raised /\ built = NoNode)
            /\ \A i \in 1..Len(log) : Listed(log[i])

\* The characters are, in their entirety, an absolute object path: "/", or
\* one or more elements [A-Za-z0-9_]+, each with a "/" before it.
IsAbsoluteObjectPath(chars) ==
    \/ chars = <<"/">>
    \/ /\ chars # <<>>
       /\ chars[1] = "/"
       /\ chars[Len(chars)] # "/"
       /\ \A i \in 1..Len(chars) :
              \/ chars[i] \in Alphanumerics
              \/ chars[i] = "/" /\ (i > 1 => chars[i - 1] # "/")

\* C23: a document whose root <node> has a name that is not an absolute
\* object path gets a diagnostic of code 'node-name' that quotes the name,
\* and no tree; a root <node> without a name, or with the name of an
\* absolute object path, gets no diagnostic of that code.
RootNodeNaming ==
    (done /\ ~raised /\ xml.tag = "node")
        => IF /\ "name" \in DOMAIN xml.attrib
              /\ ~IsAbsoluteObjectPath(CharsOf(xml.attrib.name))
               THEN /\ built = NoNode
                    /\ Listed(<<FILENAME, "parser", "node-name",
                                "Root node name is not an absolute object "
                                \o "path '" \o xml.attrib.name \o "'.">>)
               ELSE \A j \in 1..Len(_output) : _output[j][3] # "node-name"

\* The list has no element twice.
NoDuplicates(codes) ==
    \A i \in 1..Len(codes) : \A j \in 1..Len(codes) :
        codes[i] = codes[j] => i = j

\* The list that get_output_codes() of the class that made the entry
\* returns: the entries of the InterfaceParser bear the domain 'parser',
\* those of the InterfaceComparator a level.
OutputCodesOf(entry) ==
    IF entry[2] = "parser" THEN ParserOutputCodes ELSE ComparatorOutputCodes

\* C27: every code that the InterfaceComparator or the InterfaceParser has
\* recorded is an element of the list that get_output_codes() of its class
\* returns, and neither list holds a code twice.
OutputCodesComplete ==
    /\ \A j \in 1..Len(_output) :
           \E k \in 1..Len(OutputCodesOf(_output[j])) :
               OutputCodesOf(_output[j])[k] = _output[j][3]
    /\ NoDuplicates(ParserOutputCodes)
    /\ NoDuplicates(ComparatorOutputCodes)

IndexAdvances(sig, i) ==
    LET next == GetNextCharacter(sig, i)
    IN  /\ next.index \in {i, i + 1}
        /\ next.index <= Len(sig)
        /\ next.index = i <=> next.character = NoneChar
        /\ next.character # NoneChar
               => LET one == ParseOneType(sig, next.index, <<>>,
                                          next.character)
                  IN  /\ next.index <= one.index
                      /\ one.index <= Len(sig)

\* C30: during parse() the index moves forwards only and never beyond
\* len(signature); and every call of parse() on a parser, the first as the
\* later ones, leaves the result, the log and the index that the call on a
\* newly constructed parser leaves: the log does not accumulate.
SinglePassRestartable ==
    /\ \A i \in 0..Len(signature) : IndexAdvances(signature, i)
    /\ _index <= Len(signature)
    /\ calls >= 1
           => /\ parsed = ParseRun(signature).out
              /\ _log = ParseRun(signature).issues
              /\ _index = ParseRun(signature).index

\* parse() has been called a second time on a parser whose first call read
\* two characters or more and left an entry in the log.
SinglePassRestartableWitness ==
    /\ calls = 2
    /\ _index >= 2
    /\ Len(_log) = 1
    /\ parsed.none

(***************************************************************************)
(* BaseNode.walk.  A node yielded is told from another of equal value by   *)
(* its place in the tree: the positions, in the children lists, on the way *)
(* from the node walked to it.                                             *)
(***************************************************************************)
RECURSIVE WalkFromOfDescendantsFirst(_, _, _)
\* A walk that yields the descendants of a child before the child: one that
\* C25 must tell from WalkFrom.
WalkFromOfDescendantsFirst(self, path, i) ==
    IF i > Len(self.children)
        THEN <<>>
        ELSE WalkFromOfDescendantsFirst(self.children[i],
                                        Append(path, i), 1)
             \o <<[path |-> Append(path, i), node |-> self.children[i]]>>
             \o WalkFromOfDescendantsFirst(self, path, i + 1)

RECURSIVE WalkFrom(_, _, _)
\* The loop of walk from the i-th child on: "yield child", then each of
\* child.walk().
WalkFrom(self, path, i) ==
    IF i > Len(self.children)
        THEN <<>>
        ELSE <<[path |-> Append(path, i), node |-> self.children[i]]>>
             \o WalkFrom(self.children[i], Append(path, i), 1)
             \o WalkFrom(self, path, i + 1)

\* [node for node in self.walk()]
Walk(self) == WalkFrom(self, <<>>, 1)

\* list(built.walk()): "returned" collects the lists of the calls made.
walk ==
    /\ done
    /\ ~raised
    /\ built # NoNode
    /\ calls < MaxCalls
    /\ calls' = calls + 1
    /\ returned' = Append(returned, Walk(built))
    /\ UNCHANGED <<comparators, old, new, _enabled_warnings,
                   _disabled_warnings, _output, compared>>
    /\ UNCHANGED typeVars
    /\ UNCHANGED astVars

\* The children of the roots that are walked: callables with arguments and
\* annotations, two methods of one name, an interface and a node with
\* descendants of their own.
WalkChildren ==
    <<Element("method", [name |-> "A"], "",
              <<Element("annotation", [name |-> "A", value |-> "v"], "",
                        <<>>),
                Element("arg", [type |-> <<"s">>], "", <<>>)>>),
      Element("method", [name |-> "A"], "", <<>>),
      Element("signal", [name |-> "A"], "",
              <<Element("arg", [type |-> <<"s">>], "", <<>>),
                Element("arg", [type |-> <<"s">>], "", <<>>)>>),
      Element("annotation", [name |-> "A", value |-> "v"], "", <<>>),
      Element("interface", [name |-> "I.I"], "",
              <<Element("method", [name |-> "A"], "",
                        <<Element("arg", [type |-> <<"s">>], "",
                                  <<Element("annotation",
                                            [name |-> "A", value |-> "v"],
                                            "", <<>>)>>)>>)>>),
      Element("node", [name |-> "A"], "",
              <<Element("interface", [name |-> "I.I"], "", <<>>)>>)>>

\* An <interface> and a <node> with no children, with the first or the last
\* three of these children, and with all of them.
WalkDocuments ==
    {Element(tag, AttribOf(tag, "I.I"), "", OnLines(elems)) :
        tag \in {"node", "interface"},
        elems \in {<<>>, SubSeq(WalkChildren, 1, 3),
                   SubSeq(WalkChildren, 4, 6), WalkChildren}}

WalkInit == BuilderInit(WalkDocuments)

\* The tree is built and added to, and then walked: it is left as it is
\* once the first walk has been made.
WalkNext == (calls = 0 /\ AttachNext) \/ walk
WalkSpec == WalkInit /\ [][WalkNext]_vars

RECURSIVE NodeAt(_, _)
\* The node at the place.
NodeAt(self, path) ==
    IF path = <<>> THEN self
    ELSE NodeAt(self.children[Head(path)], Tail(path))

RECURSIVE CountAttached(_)
RECURSIVE CountAttachedIn(_, _)
\* The number of the nodes in the containers of the node and, in turn, of
\* these nodes.
CountAttachedIn(self, kinds) ==
    IF kinds = {} THEN 0
    ELSE LET k == CHOOSE x \in kinds : TRUE
             held == self.containers[k]
             RECURSIVE Sum(_)
             Sum(i) == IF i > Len(held) THEN 0
                       ELSE 1 + CountAttached(held[i]) + Sum(i + 1)
         IN  Sum(1) + CountAttachedIn(self, kinds \ {k})
CountAttached(self) == CountAttachedIn(self, DOMAIN self.containers)

\* One place comes before the other in pre-order: it is a proper prefix of
\* it, or the first position in which they differ is smaller.
Precedes(p, q) ==
    \/ Len(p) < Len(q) /\ SubSeq(q, 1, Len(p)) = p
    \/ \E k \in 1..Len(p) :
           /\ k <= Len(q)
           /\ SubSeq(p, 1, k - 1) = SubSeq(q, 1, k - 1)
           /\ p[k] < q[k]

\* C25: walk() yields every attached descendant of the node exactly once,
\* each child before its descendants and the siblings in the order of their
\* attachment, and neither the node itself nor a child discarded as a
\* duplicate; and every walk of the unchanged tree yields the same sequence.
WalkPreOrder ==
    \A c \in 1..Len(returned) :
        LET w == returned[c]
        IN  /\ \A i \in 1..Len(w) :
                   /\ w[i].path # <<>>
                   /\ NodeAt(built, w[i].path) = w[i].node
                   /\ LET parent == NodeAt(built, SubSeq(w[i].path, 1,
                                                        Len(w[i].path) - 1))
                          held == parent.containers[w[i].node.kind]
                      IN  \E j \in 1..Len(held) : held[j] = w[i].node
            /\ \A i \in 1..Len(w) : \A j \in 1..Len(w) :
                   i < j => Precedes(w[i].path, w[j].path)
            /\ Len(w) = CountAttached(built)
            /\ w = returned[1]

\* The tree of two levels has been walked twice after add_child() has
\* refused a duplicate.
WalkPreOrderWitness ==
    /\ calls = 2
    /\ Len(returned) = 2
    /\ result = "False"
    /\ \E i \in 1..Len(returned[2]) : Len(returned[2][i].path) = 2
    /\ Len(returned[2]) >= 3

\* The back-reference of the child names the node as its parent.
RefersTo(child, parent) ==
    /\ child.parent.kind = parent.kind
    /\ child.parent.name = PrettyName(parent)

\* C29: a node whose parent back-reference is P is held by P.children and by
\* P's container for its class, every element of P.children has the parent
\* P, and the index of an argument is its position in the argument list of
\* its callable.
ParentChildConsistent ==
    (done /\ ~raised /\ built # NoNode)
        => /\ (attaches >= 1 /\ RefersTo(last_child, built))
                  => /\ result = "True"
                     /\ built.children # <<>>
                     /\ built.children[Len(built.children)] = last_child
                     /\ \E j \in 1..Len(built.containers[last_child.kind]) :
                            built.containers[last_child.kind][j] = last_child
           /\ \A i \in 1..Len(Walk(built)) :
                  LET at == Walk(built)[i]
                      parent == NodeAt(built, SubSeq(at.path, 1,
                                                     Len(at.path) - 1))
                  IN  /\ RefersTo(at.node, parent)
                      /\ at.node.kind = "argument"
                             => /\ at.node.index + 1
                                       \in 1..Len(parent.containers["argument"])
                                /\ parent.containers["argument"]
                                       [at.node.index + 1] = at.node

(***************************************************************************)
(* Two InterfaceComparators at work at once, each on two trees of its own. *)
(* An argument bears Argument._index, the cache that the property "index"  *)
(* fills on its first read; compare() goes by steps: the emptying of       *)
(* self._output, one pass of the first loop for each old interface, and    *)
(* the second loop with the return.                                        *)
(***************************************************************************)
\* The mapping as its constructors leave it: self._index = -1 in every
\* argument.
Constructed(interfaces) ==
    LET callable(c) ==
            [c EXCEPT !.arguments =
                [k \in 1..Len(c.arguments) |->
                    c.arguments[k] @@ [_index |-> -1]]]
    IN  [i \in 1..Len(interfaces) |->
            [interfaces[i] EXCEPT
                !.methods = [m \in 1..Len(@) |-> callable(@[m])],
                !.signals = [m \in 1..Len(@) |-> callable(@[m])]]]

\* The k-th argument of the callable after a read of its "index":
\* "if self._index != -1: return self._index", and otherwise
\* "self._index = self.parent.arguments.index(self)".
IndexRead(callable, k) ==
    [callable EXCEPT !.arguments[k]._index = IF @ # -1 THEN @ ELSE k - 1]

RECURSIVE NamedArguments(_, _, _)
\* The two callables after the argument loop of _compare_methods or
\* _compare_signals from position k on: format_name() reads the index of the
\* argument that a diagnostic names, the new one where it was added and the
\* old one where it was removed or differs.
NamedArguments(old_callable, new_callable, k) ==
    IF k > Max(Len(old_callable.arguments), Len(new_callable.arguments))
        THEN [old |-> old_callable, new |-> new_callable]
    ELSE IF k > Len(old_callable.arguments)
        THEN NamedArguments(old_callable, IndexRead(new_callable, k), k + 1)
    ELSE IF k > Len(new_callable.arguments)
             \/ CompareArguments(old_callable.arguments[k],
                                 new_callable.arguments[k]) # <<>>
        THEN NamedArguments(IndexRead(old_callable, k), new_callable, k + 1)
    ELSE NamedArguments(old_callable, new_callable, k + 1)

RECURSIVE NamedCallables(_, _, _, _)
\* The two interfaces after the first loop of _compare_interfaces over the
\* methods, or the signals, from the m-th old one on.
NamedCallables(old_interface, new_interface, field, m) ==
    IF m > Len(old_interface[field])
        THEN [old |-> old_interface, new |-> new_interface]
    ELSE IF ~Has(new_interface[field], old_interface[field][m].name)
        THEN NamedCallables(old_interface, new_interface, field, m + 1)
    ELSE LET at == CHOOSE j \in 1..Len(new_interface[field]) :
                       new_interface[field][j].name
                           = old_interface[field][m].name
             named == NamedArguments(old_interface[field][m],
                                     new_interface[field][at], 1)
         IN  NamedCallables([old_interface EXCEPT ![field][m] = named.old],
                            [new_interface EXCEPT ![field][at] = named.new],
                            field, m + 1)

\* The two interfaces after _compare_interfaces.
NamedInterfaces(old_interface, new_interface) ==
    LET methods == NamedCallables(old_interface, new_interface, "methods", 1)
    IN  NamedCallables(methods.old, methods.new, "signals", 1)

\* A compare() that appends to the list of the class, which the other
\* comparator appends to as well: one that C26 must tell from CompareStep.
CompareStepOfSharedOutput(self, other) ==
    LET i == self.position
        interface == self.old[i]
        at == CHOOSE j \in 1..Len(self.new) :
                  self.new[j].name = interface.name
        named == NamedInterfaces(interface, self.new[at])
    IN  IF i = 0
            THEN [self EXCEPT !._output = other._output, !.position = 1]
        ELSE IF i > Len(self.old)
            THEN [self EXCEPT
                     !._output = @ \o AddedLoop("interface", "Interface",
                                               self.old, self.new),
                     !.position = i + 1]
        ELSE IF ~Has(self.new, interface.name)
            THEN [self EXCEPT
                     !._output = Append(@, Removed("interface", "Interface",
                                                   interface)),
                     !.position = i + 1]
        ELSE [self EXCEPT
                 !._output = @ \o CompareInterfaces(interface, self.new[at]),
                 !.old[i] = named.old,
                 !.new[at] = named.new,
                 !.position = i + 1]

\* One step of compare() on the comparator: "self._output = []" at position
\* 0, the pass of the first loop for the old interface of the position, and
\* the second loop past the last of them.
CompareStep(self, other) ==
    LET i == self.position
        interface == self.old[i]
        at == CHOOSE j \in 1..Len(self.new) :
                  self.new[j].name = interface.name
        named == NamedInterfaces(interface, self.new[at])
    IN  IF i = 0
            THEN [self EXCEPT !._output = <<>>, !.position = 1]
        ELSE IF i > Len(self.old)
            THEN [self EXCEPT
                     !._output = @ \o AddedLoop("interface", "Interface",
                                               self.old, self.new),
                     !.position = i + 1]
        ELSE IF ~Has(self.new, interface.name)
            THEN [self EXCEPT
                     !._output = Append(@, Removed("interface", "Interface",
                                                   interface)),
                     !.position = i + 1]
        ELSE [self EXCEPT
                 !._output = @ \o CompareInterfaces(interface, self.new[at]),
                 !.old[i] = named.old,
                 !.new[at] = named.new,
                 !.position = i + 1]

\* compare() has returned.
Returned(self) == self.position = Len(self.old) + 2

\* The mappings of the comparators: none, one or two interfaces, a method
\* and a signal with arguments that are added, removed and changed.
PairArguments ==
    {<<>>,
     <<Argument("x", "in", <<"s">>, <<>>)>>,
     <<Argument("x", "out", <<"s">>, <<>>),
       Argument(NoneName, "in", <<"s">>, <<>>)>>}

PairTrees ==
    {<<>>}
    \cup {<<Interface("a.I", <<Method("M", args, <<>>)>>, <<>>,
                      <<Signal("S", args, <<>>)>>, <<>>)>> :
             args \in PairArguments}
    \cup {<<Interface("a.J", <<>>, <<>>, <<>>, <<>>),
            Interface("a.I", <<Method("M", args, <<>>)>>, <<>>, <<>>,
                      <<>>)>> : args \in PairArguments}

\* InterfaceComparator.__init__, twice.
PairInit ==
    /\ comparators \in
           [1..2 -> {[old |-> Constructed(old_interfaces),
                      new |-> Constructed(new_interfaces),
                      _output |-> <<>>,
                      position |-> 0] :
                        old_interfaces \in PairTrees,
                        new_interfaces \in PairTrees}]
    /\ old = <<>>
    /\ new = <<>>
    /\ _enabled_warnings = WARNING_CATEGORIES
    /\ _disabled_warnings = <<>>
    /\ _output = <<>>
    /\ compared = FALSE
    /\ returned = <<>>
    /\ calls = 0
    /\ signature = <<>>
    /\ _index = 0
    /\ _log = <<>>
    /\ parsed = NotCalled
    /\ rendered = NoneStr
    /\ NoBuilder

\* One of the comparators takes the next step of its compare().
compare_step ==
    /\ \E c \in 1..2 :
           /\ ~Returned(comparators[c])
           /\ comparators' =
                  [comparators EXCEPT
                      ![c] = CompareStep(comparators[c], comparators[3 - c])]
    /\ UNCHANGED <<old, new, _enabled_warnings, _disabled_warnings, _output,
                   compared, returned, calls>>
    /\ UNCHANGED typeVars
    /\ UNCHANGED astVars

PairSpec == PairInit /\ [][compare_step]_vars

\* The mapping with every Argument._index back at -1, as constructed.
Uncached(interfaces) ==
    LET callable(c) ==
            [c EXCEPT !.arguments =
                [k \in 1..Len(c.arguments) |->
                    [c.arguments[k] EXCEPT !._index = -1]]]
    IN  [i \in 1..Len(interfaces) |->
            [interfaces[i] EXCEPT
                !.methods = [m \in 1..Len(@) |-> callable(@[m])],
                !.signals = [m \in 1..Len(@) |-> callable(@[m])]]]

\* The _index caches of the mapping, each unset or the position of its
\* argument in the argument list of its parent.
CachesArePositions(interfaces) ==
    \A i \in 1..Len(interfaces) :
        \A field \in {"methods", "signals"} :
            \A m \in 1..Len(interfaces[i][field]) :
                \A k \in 1..Len(interfaces[i][field][m].arguments) :
                    interfaces[i][field][m].arguments[k]._index
                        \in {-1, k - 1}

\* Some argument of the mapping has its index cached.
SomeCached(interfaces) == interfaces # Uncached(interfaces)

====
